---- MODULE Spec2Model ----
(***************************************************************************)
(* A model of the audio relay of helloworld337/music.                      *)
(*                                                                         *)
(*   - the Session Registry (MemStorage: rooms, participants);             *)
(*   - the Relay Coordinator (registerRoutes: the connection table and the *)
(*     handlers of create_room, join_room, audio_data, leave_room and of   *)
(*     the transport's close event);                                       *)
(*   - the listener's jitter buffer and playback scheduler (JoinRoom).     *)
(*                                                                         *)
(* The handlers are async functions.  Every `await` is a suspension point: *)
(* the code before it runs in one step, the code after it in a later step, *)
(* and steps of other handlers (of any connection, the same one included)  *)
(* may run in between.  The body of a MemStorage method has no await of    *)
(* its own, so it runs at the call, before the caller suspends.            *)
(***************************************************************************)
EXTENDS Integers, Sequences, FiniteSets, TLC

(***************************************************************************)
(* Bounds of the model.                                                    *)
(***************************************************************************)
\* client events (messages and transport closes) the relay receives in a run
MaxEvents == 4
\* handlers that may be suspended at an await at the same time
MaxInFlight == 2

\* the connections that may ever be accepted (generateClientId gives each a
\* fresh identifier)
Conns == {"c1", "c2", "c3"}

(***************************************************************************)
(* Values.                                                                 *)
(***************************************************************************)
\* a room identifier is a string, modelled as the sequence of its characters;
\* null (and the empty string, which is as falsy) is the empty sequence
NoRoom == <<>>
NoHost == "none"
\* an absent (undefined) number
NoSeq == 0 - 1

\* generateRoomId draws 6 characters; the model samples two of its outcomes
RoomCodeLength == 6
RoomIds == { <<"A", "B", "C", "D", "E", "F">>, <<"G", "H", "2", "3", "4", "5">> }

\* the maximum length of an audio payload
MaxAudioLength == 5242880

\* an audio payload is a string or some other JSON value; only its type and
\* length are read by the relay
NoData == [isString |-> FALSE, len |-> 0, tag |-> "none"]
PcmData == [isString |-> TRUE, len |-> 4, tag |-> "pcm"]
EmptyData == [isString |-> TRUE, len |-> 0, tag |-> "empty"]
HugeData == [isString |-> TRUE, len |-> MaxAudioLength + 1, tag |-> "huge"]

(***************************************************************************)
(* Characters: toUpperCase and trim of String, on the model's alphabet.    *)
(***************************************************************************)
LowerCase == <<"a", "b", "c", "d", "e", "f", "g", "h">>
UpperCase == <<"A", "B", "C", "D", "E", "F", "G", "H">>

UpperChar(ch) ==
  IF \E i \in 1..Len(LowerCase) : LowerCase[i] = ch
    THEN UpperCase[CHOOSE i \in 1..Len(LowerCase) : LowerCase[i] = ch]
    ELSE ch

LowerChar(ch) ==
  IF \E i \in 1..Len(UpperCase) : UpperCase[i] = ch
    THEN LowerCase[CHOOSE i \in 1..Len(UpperCase) : UpperCase[i] = ch]
    ELSE ch

toUpperCase(s) == [i \in 1..Len(s) |-> UpperChar(s[i])]
toLowerCase(s) == [i \in 1..Len(s) |-> LowerChar(s[i])]

IsSpace(ch) == ch = " "

RECURSIVE TrimStart(_)
TrimStart(s) ==
  IF s # <<>> /\ IsSpace(Head(s)) THEN TrimStart(Tail(s)) ELSE s

RECURSIVE TrimEnd(_)
TrimEnd(s) ==
  IF s # <<>> /\ IsSpace(s[Len(s)]) THEN TrimEnd(SubSeq(s, 1, Len(s) - 1)) ELSE s

trim(s) == TrimEnd(TrimStart(s))

\* (a normalisation that trims and keeps the letter case, to try C15 against)
NormalizeRoomIdKeepingCase(raw) == trim(raw)

\* message.roomId?.toUpperCase?.().trim?.()
NormalizeRoomId(raw) == trim(toUpperCase(raw))

(***************************************************************************)
(* Messages of the relay to a client.  Three fields are not on the wire:   *)
(* `room` is the roomId argument of the call that sent the message,        *)
(* `source` the connection whose audio_data is relayed and `event` the     *)
(* number of the client event that carried it.                             *)
(***************************************************************************)
Msg(type) ==
  [type |-> type, roomId |-> NoRoom, hostConnected |-> FALSE, count |-> 0,
   data |-> NoData, seq |-> NoSeq, timestamp |-> NoSeq, room |-> NoRoom,
   source |-> NoHost, event |-> 0]

RoomCreatedMessage(roomId) == [Msg("room_created") EXCEPT !.roomId = roomId]
RoomJoinedMessage(roomId, hostConnected) ==
  [Msg("room_joined") EXCEPT !.roomId = roomId, !.hostConnected = hostConnected]
ListenerCountMessage(count, roomId) ==
  [Msg("listener_count") EXCEPT !.count = count, !.room = roomId]
HostDisconnectedMessage(roomId) == [Msg("host_disconnected") EXCEPT !.room = roomId]
HostStreamingMessage(roomId) == [Msg("host_streaming") EXCEPT !.room = roomId]
ErrorMessage == Msg("error")
AudioDataMessage(roomId, m, source, event) ==
  [Msg("audio_data") EXCEPT !.data = m.data, !.seq = m.seq,
                            !.timestamp = m.timestamp, !.room = roomId,
                            !.source = source, !.event = event]

VARIABLES
  \* the relay (server)
  rooms,         \* MemStorage.rooms: roomId -> [hostId, isActive]
  participants,  \* MemStorage.participants: listenerId -> [roomId]
  clients,       \* the keys of the connection table `clients`
  conn,          \* the ClientConnection object of each connection
  tasks,         \* the handlers suspended at an await
  sent,          \* per connection, the messages ws.send was called with
  nEvents,       \* client events received so far
  sequenceRef,   \* the source client's next sequence number
  hasLeft,       \* the connection's last membership event was a leave or a close
  lastOp,        \* the last registry method called directly, with its result
  \* the listener page (JoinRoom)
  audioContext,        \* audioContextRef.current and gainNodeRef.current are set
  currentTime,         \* audioContextRef.current.currentTime
  scheduler,           \* schedulerRef.current is set: the interval timer runs
  audioBuffer,         \* audioBufferRef.current: seq -> length of the Float32Array
  nextPlaySeq,         \* nextPlaySeqRef.current, NoSeq for null
  nextPlayTime,        \* nextPlayTimeRef.current
  isBufferingRef,      \* isBufferingRef.current
  isBuffering,         \* the isBuffering state of the component
  latestReceivedSeq,   \* latestReceivedSeqRef.current
  hasStartedPlayback,  \* hasStartedPlaybackRef.current
  isDelayed,           \* the isDelayed state of the component
  bufferStatus,        \* the bufferStatus state of the component
  started,             \* the calls of source.start: [seq, when, duration], with
                       \* the clock and the number of arrivals at the call
  transitions,         \* buffering-to-playing transitions of the current episode
  lastTick,            \* what the last call of scheduleAudio did
  nArrivals,           \* audio_data messages the page has received
  nAdvances,           \* steps the audio clock has made
  connectionState,     \* the page's view of its socket: setConnectionState
  \* the source page (HostRoom)
  readyState,          \* socketRef.current.readyState
  picking,             \* startTabCapture waits for getDisplayMedia
  processorRef,        \* processorRef.current is set: the capture runs
  accumulatedChunks,   \* the blocks pushed since the last emission
  accumulatedSamples,  \* the frames pushed since the last emission
  captured,            \* the blocks the running capture has delivered
  handedOff,           \* the calls of sendRef.current: [capture, seq, data]
  wire,                \* the calls of socket.send among them
  nBlocks,             \* blocks delivered so far
  nCaptures            \* captures started so far

relayVars ==
  <<rooms, participants, clients, conn, tasks, sent, nEvents, sequenceRef, hasLeft>>

listenerVars ==
  <<audioContext, currentTime, scheduler, audioBuffer, nextPlaySeq, nextPlayTime,
    isBufferingRef, isBuffering, latestReceivedSeq, hasStartedPlayback, isDelayed,
    bufferStatus, started, transitions, lastTick, nArrivals, nAdvances,
    connectionState>>

captureVars ==
  <<readyState, picking, processorRef, accumulatedChunks, accumulatedSamples,
    captured, handedOff, wire, nBlocks, nCaptures>>

\* what a step of the relay leaves alone
notRelayVars == <<lastOp, listenerVars, captureVars>>

vars == <<relayVars, lastOp, listenerVars, captureVars>>

(***************************************************************************)
(* The Session Registry: MemStorage.  Each operator is the effect of one   *)
(* method on the maps it touches.  Participant.id (currentId++) and the    *)
(* two timestamps are written and never read; they are left out.           *)
(***************************************************************************)
\* this.rooms.has(roomId)
roomsHas(rs, roomId) == roomId \in DOMAIN rs

\* getRoom: the room's hostId, NoHost for undefined
getRoom(rs, roomId) == IF roomsHas(rs, roomId) THEN rs[roomId].hostId ELSE NoHost

\* createRoom, for the identifier the rejection sampling ends with
createRoom(rs, roomId, hostId) ==
  [r \in DOMAIN rs \cup {roomId} |->
     IF r = roomId THEN [hostId |-> hostId, isActive |-> FALSE] ELSE rs[r]]

\* (a createRoom without the loop: the first identifier generated is taken, to
\* try C23 against)
FirstRoomIds(rs) == RoomIds

\* the identifiers createRoom's loop can end with
FreshRoomIds(rs) == { r \in RoomIds : ~roomsHas(rs, r) }

\* (an addListener that registers without looking the room up, to try C17
\* against)
addListenerToAnyRoom(rs, ps, roomId, listenerId) ==
  [c \in DOMAIN ps \cup {listenerId} |->
     IF c = listenerId THEN [roomId |-> roomId] ELSE ps[c]]

\* addListener: its result, and the participants map after it
addListenerResult(rs, roomId) == roomsHas(rs, roomId)
addListener(rs, ps, roomId, listenerId) ==
  IF ~roomsHas(rs, roomId) THEN ps
  ELSE [c \in DOMAIN ps \cup {listenerId} |->
          IF c = listenerId THEN [roomId |-> roomId] ELSE ps[c]]

\* removeListener: its result, and the participants map after it
removeListenerResult(ps, roomId, listenerId) ==
  listenerId \in DOMAIN ps /\ ps[listenerId].roomId = roomId
removeListener(ps, roomId, listenerId) ==
  IF listenerId \in DOMAIN ps /\ ps[listenerId].roomId = roomId
    THEN [c \in DOMAIN ps \ {listenerId} |-> ps[c]]
    ELSE ps

\* deleteRoom: its result, and the two maps after it
deleteRoomResult(rs, roomId) == roomsHas(rs, roomId)
\* (a deleteRoom without its loop over the participants, to try C4 against)
deleteRoomKeepsParticipants(ps, roomId) == ps
deleteRoomParticipants(ps, roomId) ==
  [c \in { x \in DOMAIN ps : ps[x].roomId # roomId } |-> ps[c]]
deleteRoomRooms(rs, roomId) == [r \in DOMAIN rs \ {roomId} |-> rs[r]]

getListenerCount(ps, roomId) ==
  Cardinality({ c \in DOMAIN ps : ps[c].roomId = roomId })

setRoomActive(rs, roomId, isActive) ==
  IF roomsHas(rs, roomId)
    THEN [rs EXCEPT ![roomId] = [@ EXCEPT !.isActive = isActive]]
    ELSE rs

(***************************************************************************)
(* The Relay Coordinator's helpers.  cl is the key set of `clients`, tbl   *)
(* the connection objects, log the messages sent so far.                   *)
(***************************************************************************)
wsOpen(cl, tbl, clientId) == clientId \in cl /\ tbl[clientId].ws = "OPEN"

sendToClient(cl, tbl, log, clientId, message) ==
  IF clientId \in Conns /\ wsOpen(cl, tbl, clientId)
    THEN [log EXCEPT ![clientId] = Append(@, message)]
    ELSE log

\* the connections the loop of broadcastToListeners calls sendToClient for
Recipients(cl, tbl, roomId) ==
  { c \in cl : tbl[c].roomId = roomId /\ ~tbl[c].isHost }

\* (a fan-out that sends only when every recipient's socket is open, to try
\* C20 against)
broadcastToAllOrNone(cl, tbl, log, roomId, message) ==
  [c \in Conns |->
     IF /\ c \in Recipients(cl, tbl, roomId)
        /\ \A d \in Recipients(cl, tbl, roomId) : wsOpen(cl, tbl, d)
       THEN sendToClient(cl, tbl, log, c, message)[c]
       ELSE log[c]]

broadcastToListeners(cl, tbl, log, roomId, message) ==
  [c \in Conns |->
     IF c \in Recipients(cl, tbl, roomId)
       THEN sendToClient(cl, tbl, log, c, message)[c]
       ELSE log[c]]

(***************************************************************************)
(* Handlers.  A suspended handler is a record: the connection it belongs   *)
(* to, the await it is suspended at, and its local variables.  For a       *)
(* leave_room or close handler, roomId records the connection's room at    *)
(* the call of handleClientLeave; the code does not keep it.               *)
(***************************************************************************)
NoMessage == [data |-> NoData, seq |-> NoSeq, timestamp |-> NoSeq]

Task(id, c, kind, pc) ==
  [id |-> id, conn |-> c, kind |-> kind, pc |-> pc, roomId |-> NoRoom,
   hostId |-> NoHost, lcRoomId |-> NoRoom, lcHostId |-> NoHost, count |-> 0,
   ok |-> FALSE, message |-> NoMessage]

Suspend(t) == tasks' = tasks \cup {t}
Resume(t, u) == tasks' = (tasks \ {t}) \cup {u}
Finish(t) == tasks' = tasks \ {t}

\* a client event can be received: the connection is open and in the table
CanReceive(c) ==
  /\ c \in clients
  /\ conn[c].ws = "OPEN"
  /\ nEvents < MaxEvents
  /\ Cardinality(tasks) < MaxInFlight

NewConnection == [ws |-> "OPEN", roomId |-> NoRoom, isHost |-> FALSE, isStreaming |-> FALSE]
Unconnected == [ws |-> "NONE", roomId |-> NoRoom, isHost |-> FALSE, isStreaming |-> FALSE]

\* wss.on("connection"): connections are accepted in the order c1, c2, c3
ConnOrder == <<"c1", "c2", "c3">>
Connect(c) ==
  /\ conn[c].ws = "NONE"
  /\ \E i \in 1..Len(ConnOrder) :
       /\ ConnOrder[i] = c
       /\ \A j \in 1..(i - 1) : conn[ConnOrder[j]].ws # "NONE"
  /\ conn' = [conn EXCEPT ![c] = NewConnection]
  /\ clients' = clients \cup {c}
  /\ UNCHANGED <<rooms, participants, tasks, sent, nEvents, sequenceRef, hasLeft, notRelayVars>>

(***************************************************************************)
(* create_room                                                             *)
(***************************************************************************)
\* lines 135-136: storage.createRoom runs, the handler suspends at its await
CreateRoomMsg(c) ==
  /\ CanReceive(c)
  /\ \E roomId \in FreshRoomIds(rooms) :
       /\ rooms' = createRoom(rooms, roomId, c)
       /\ Suspend([Task(nEvents + 1, c, "create_room", "createRoom")
                     EXCEPT !.roomId = roomId])
  /\ nEvents' = nEvents + 1
  /\ hasLeft' = [hasLeft EXCEPT ![c] = FALSE]
  /\ UNCHANGED <<participants, clients, conn, sent, sequenceRef, notRelayVars>>

\* the connection object after lines 137-139
createRoomConnection(connection, roomId) ==
  [connection EXCEPT !.roomId = roomId, !.isHost = TRUE, !.isStreaming = FALSE]

\* lines 137-147
CreateRoomResume(t) ==
  /\ t \in tasks /\ t.pc = "createRoom"
  /\ conn' = [conn EXCEPT ![t.conn] = createRoomConnection(@, t.roomId)]
  /\ sent' = sendToClient(clients, conn, sent, t.conn, RoomCreatedMessage(t.roomId))
  /\ Finish(t)
  /\ UNCHANGED <<rooms, participants, clients, nEvents, sequenceRef, hasLeft, notRelayVars>>

(***************************************************************************)
(* join_room                                                               *)
(***************************************************************************)
\* the roomId fields a client may send: a room code as it is, or in lower case
\* between blanks; the empty string (or no roomId); a blank
JoinInputs ==
  RoomIds \cup { <<" ">> \o toLowerCase(r) \o <<" ">> : r \in RoomIds }
          \cup { <<>>, <<" ">> }

\* lines 150-160
JoinRoomMsg(c, raw) ==
  /\ CanReceive(c)
  /\ nEvents' = nEvents + 1
  /\ LET roomId == NormalizeRoomId(raw) IN
       IF roomId = NoRoom
         THEN /\ sent' = sendToClient(clients, conn, sent, c, ErrorMessage)
              /\ UNCHANGED tasks
         ELSE /\ Suspend([Task(nEvents + 1, c, "join_room", "join_getRoom")
                            EXCEPT !.roomId = roomId,
                                   !.hostId = getRoom(rooms, roomId)])
              /\ UNCHANGED sent
  /\ hasLeft' = [hasLeft EXCEPT ![c] = FALSE]
  /\ UNCHANGED <<rooms, participants, clients, conn, sequenceRef, notRelayVars>>

\* lines 161-169
JoinAfterGetRoom(t) ==
  /\ t \in tasks /\ t.pc = "join_getRoom"
  /\ IF t.hostId = NoHost
       THEN /\ sent' = sendToClient(clients, conn, sent, t.conn, ErrorMessage)
            /\ Finish(t)
            /\ UNCHANGED participants
       ELSE /\ participants' = addListener(rooms, participants, t.roomId, t.conn)
            /\ Resume(t, [t EXCEPT !.pc = "join_addListener",
                                   !.ok = addListenerResult(rooms, t.roomId)])
            /\ UNCHANGED sent
  /\ UNCHANGED <<rooms, clients, conn, nEvents, sequenceRef, hasLeft, notRelayVars>>

\* the connection object after lines 170-171
joinRoomConnection(connection, roomId) ==
  [connection EXCEPT !.roomId = roomId, !.isHost = FALSE]

\* lines 173-174: clients.get(room.hostId)?.isStreaming ?? false
hostConnected(cl, tbl, hostId) ==
  IF hostId \in cl THEN tbl[hostId].isStreaming ELSE FALSE

\* lines 169-189, up to the await inside sendListenerCountToHost (line 106)
JoinAfterAddListener(t) ==
  /\ t \in tasks /\ t.pc = "join_addListener"
  /\ IF t.ok
       THEN /\ conn' = [conn EXCEPT ![t.conn] = joinRoomConnection(@, t.roomId)]
            /\ sent' = sendToClient(clients, conn, sent, t.conn,
                         RoomJoinedMessage(t.roomId, hostConnected(clients, conn, t.hostId)))
            /\ Resume(t, [t EXCEPT !.pc = "lc_getRoom",
                                   !.lcRoomId = t.roomId,
                                   !.lcHostId = getRoom(rooms, t.roomId)])
       ELSE /\ sent' = sendToClient(clients, conn, sent, t.conn, ErrorMessage)
            /\ Finish(t)
            /\ UNCHANGED conn
  /\ UNCHANGED <<rooms, participants, clients, nEvents, sequenceRef, hasLeft, notRelayVars>>

(***************************************************************************)
(* sendListenerCountToHost, called by join_room and by handleClientLeave   *)
(***************************************************************************)
\* where the caller goes on when sendListenerCountToHost has returned
AfterListenerCount(t) ==
  IF t.kind = "join_room"
    THEN Finish(t)
    ELSE Resume(t, [t EXCEPT !.pc = "leave_sendListenerCount"])

\* lines 107-108
ListenerCountAfterGetRoom(t) ==
  /\ t \in tasks /\ t.pc = "lc_getRoom"
  /\ IF t.lcHostId # NoHost
       THEN Resume(t, [t EXCEPT !.pc = "lc_getListenerCount",
                                !.count = getListenerCount(participants, t.lcRoomId)])
       ELSE AfterListenerCount(t)
  /\ UNCHANGED <<rooms, participants, clients, conn, sent, nEvents, sequenceRef, hasLeft, notRelayVars>>

\* lines 109-112
ListenerCountSend(t) ==
  /\ t \in tasks /\ t.pc = "lc_getListenerCount"
  /\ sent' = sendToClient(clients, conn, sent, t.lcHostId,
                          ListenerCountMessage(t.count, t.lcRoomId))
  /\ AfterListenerCount(t)
  /\ UNCHANGED <<rooms, participants, clients, conn, nEvents, sequenceRef, hasLeft, notRelayVars>>

(***************************************************************************)
(* audio_data                                                              *)
(***************************************************************************)
\* (a check of the payload's type alone, to try C18 against)
validAudioAnyString(data) == data.isString

\* lines 209-216: the payload is relayed
validAudio(data) ==
  /\ data.isString
  /\ data.len # 0
  /\ ~(data.len > MaxAudioLength)

\* lines 209-225
relayAudio(cl, tbl, log, roomId, message, source, event) ==
  IF validAudio(message.data)
    THEN broadcastToListeners(cl, tbl, log, roomId,
                              AudioDataMessage(roomId, message, source, event))
    ELSE log

\* the payloads a client sends
AudioInputs == {PcmData, EmptyData}

\* host-room.tsx lines 176-181: the chunk the source client sends
ChunkMessage(data, seq) == [data |-> data, seq |-> seq, timestamp |-> seq]

\* (a guard that lets every member of a room through, to try C38 against)
isSourceOrListener(connection) == connection.roomId # NoRoom
\* line 194: the connection that may send audio is the source of a room
isSource(connection) == connection.isHost /\ connection.roomId # NoRoom

\* lines 193-207 (first chunk) or 193-225 (later chunks)
AudioDataMsg(c, data) ==
  /\ CanReceive(c)
  /\ nEvents' = nEvents + 1
  /\ sequenceRef' = [sequenceRef EXCEPT ![c] = @ + 1]
  /\ LET message == ChunkMessage(data, sequenceRef[c]) IN
       IF ~isSource(conn[c])
         THEN UNCHANGED <<rooms, conn, tasks, sent>>
         ELSE IF ~conn[c].isStreaming
           THEN /\ conn' = [conn EXCEPT ![c] = [@ EXCEPT !.isStreaming = TRUE]]
                /\ rooms' = setRoomActive(rooms, conn[c].roomId, TRUE)
                /\ Suspend([Task(nEvents + 1, c, "audio_data", "setRoomActive")
                              EXCEPT !.message = message])
                /\ UNCHANGED sent
           ELSE /\ sent' = relayAudio(clients, conn, sent, conn[c].roomId,
                                      message, c, nEvents + 1)
                /\ UNCHANGED <<rooms, conn, tasks>>
  /\ UNCHANGED <<participants, clients, hasLeft, notRelayVars>>

\* lines 204-206
AudioAfterSetRoomActive(t) ==
  /\ t \in tasks /\ t.pc = "setRoomActive"
  /\ sent' = broadcastToListeners(clients, conn, sent, conn[t.conn].roomId,
                                  HostStreamingMessage(conn[t.conn].roomId))
  /\ Resume(t, [t EXCEPT !.pc = "broadcast_host_streaming"])
  /\ UNCHANGED <<rooms, participants, clients, conn, nEvents, sequenceRef, hasLeft, notRelayVars>>

\* lines 209-226
AudioAfterHostStreaming(t) ==
  /\ t \in tasks /\ t.pc = "broadcast_host_streaming"
  /\ sent' = relayAudio(clients, conn, sent, conn[t.conn].roomId, t.message,
                      t.conn, t.id)
  /\ Finish(t)
  /\ UNCHANGED <<rooms, participants, clients, conn, nEvents, sequenceRef, hasLeft, notRelayVars>>

(***************************************************************************)
(* leave_room and the transport's close event: handleClientLeave           *)
(***************************************************************************)
\* lines 254-264, up to the first await.  tbl is the connection table at the
\* call (for a close event the socket of c is closed already).
HandleClientLeaveStart(c, kind, tbl) ==
  IF tbl[c].roomId = NoRoom
    THEN /\ IF kind = "close"
              THEN Suspend(Task(nEvents + 1, c, kind, "close_handleClientLeave"))
              ELSE UNCHANGED tasks
         /\ UNCHANGED <<participants, sent>>
    ELSE IF tbl[c].isHost
      THEN /\ sent' = broadcastToListeners(clients, tbl, sent, tbl[c].roomId,
                                           HostDisconnectedMessage(tbl[c].roomId))
           /\ Suspend([Task(nEvents + 1, c, kind, "leave_broadcast")
                         EXCEPT !.roomId = tbl[c].roomId])
           /\ UNCHANGED participants
      ELSE /\ participants' = removeListener(participants, tbl[c].roomId, c)
           /\ Suspend([Task(nEvents + 1, c, kind, "leave_removeListener")
                         EXCEPT !.roomId = tbl[c].roomId])
           /\ UNCHANGED sent

\* lines 229-230
LeaveRoomMsg(c) ==
  /\ CanReceive(c)
  /\ nEvents' = nEvents + 1
  /\ HandleClientLeaveStart(c, "leave_room", conn)
  /\ hasLeft' = [hasLeft EXCEPT ![c] = TRUE]
  /\ UNCHANGED <<rooms, clients, conn, sequenceRef, notRelayVars>>

\* lines 243-245: the socket has closed
Close(c) ==
  /\ CanReceive(c)
  /\ nEvents' = nEvents + 1
  /\ conn' = [conn EXCEPT ![c] = [@ EXCEPT !.ws = "CLOSED"]]
  /\ HandleClientLeaveStart(c, "close", conn')
  /\ hasLeft' = [hasLeft EXCEPT ![c] = TRUE]
  /\ UNCHANGED <<rooms, clients, sequenceRef, notRelayVars>>

\* line 261
LeaveAfterBroadcast(t) ==
  /\ t \in tasks /\ t.pc = "leave_broadcast"
  /\ participants' = deleteRoomParticipants(participants, conn[t.conn].roomId)
  /\ rooms' = deleteRoomRooms(rooms, conn[t.conn].roomId)
  /\ Resume(t, [t EXCEPT !.pc = "leave_deleteRoom"])
  /\ UNCHANGED <<clients, conn, sent, nEvents, sequenceRef, hasLeft, notRelayVars>>

\* line 265, up to the await inside sendListenerCountToHost (line 106)
LeaveAfterRemoveListener(t) ==
  /\ t \in tasks /\ t.pc = "leave_removeListener"
  /\ Resume(t, [t EXCEPT !.pc = "lc_getRoom",
                         !.lcRoomId = conn[t.conn].roomId,
                         !.lcHostId = getRoom(rooms, conn[t.conn].roomId)])
  /\ UNCHANGED <<rooms, participants, clients, conn, sent, nEvents, sequenceRef, hasLeft, notRelayVars>>

\* the connection object after lines 269-271
leftConnection(connection) ==
  [connection EXCEPT !.roomId = NoRoom, !.isHost = FALSE, !.isStreaming = FALSE]

\* lines 269-271
LeaveFinish(t) ==
  /\ t \in tasks /\ t.pc \in {"leave_deleteRoom", "leave_sendListenerCount"}
  /\ conn' = [conn EXCEPT ![t.conn] = leftConnection(@)]
  /\ IF t.kind = "close"
       THEN Resume(t, [t EXCEPT !.pc = "close_handleClientLeave"])
       ELSE Finish(t)
  /\ UNCHANGED <<rooms, participants, clients, sent, nEvents, sequenceRef, hasLeft, notRelayVars>>

\* line 246
CloseFinish(t) ==
  /\ t \in tasks /\ t.pc = "close_handleClientLeave"
  /\ clients' = clients \ {t.conn}
  /\ Finish(t)
  /\ UNCHANGED <<rooms, participants, conn, sent, nEvents, sequenceRef, hasLeft, notRelayVars>>

(***************************************************************************)
(* The Session Registry called directly: any method, with any arguments,   *)
(* in any order.                                                           *)
(***************************************************************************)
\* a call: the method, its arguments, its result, and the number of listeners
\* the room named had before the call
Op(op, roomId, clientId, result) ==
  [op |-> op, roomId |-> roomId, clientId |-> clientId, result |-> result,
   listeners |-> getListenerCount(participants, roomId)]

NoOp ==
  [op |-> "none", roomId |-> NoRoom, clientId |-> NoHost, result |-> FALSE,
   listeners |-> 0]

CallCreateRoom(hostId) ==
  /\ \E roomId \in FreshRoomIds(rooms) :
       /\ rooms' = createRoom(rooms, roomId, hostId)
       /\ lastOp' = Op("createRoom", roomId, hostId, TRUE)
  /\ UNCHANGED <<participants, clients, conn, tasks, sent, nEvents, sequenceRef,
                 hasLeft, listenerVars, captureVars>>

CallAddListener(roomId, listenerId) ==
  /\ participants' = addListener(rooms, participants, roomId, listenerId)
  /\ lastOp' = Op("addListener", roomId, listenerId, addListenerResult(rooms, roomId))
  /\ UNCHANGED <<rooms, clients, conn, tasks, sent, nEvents, sequenceRef,
                 hasLeft, listenerVars, captureVars>>

CallRemoveListener(roomId, listenerId) ==
  /\ participants' = removeListener(participants, roomId, listenerId)
  /\ lastOp' = Op("removeListener", roomId, listenerId,
                  removeListenerResult(participants, roomId, listenerId))
  /\ UNCHANGED <<rooms, clients, conn, tasks, sent, nEvents, sequenceRef,
                 hasLeft, listenerVars, captureVars>>

CallDeleteRoom(roomId) ==
  /\ participants' = deleteRoomParticipants(participants, roomId)
  /\ rooms' = deleteRoomRooms(rooms, roomId)
  /\ lastOp' = Op("deleteRoom", roomId, NoHost, deleteRoomResult(rooms, roomId))
  /\ UNCHANGED <<clients, conn, tasks, sent, nEvents, sequenceRef, hasLeft,
                 listenerVars, captureVars>>

CallSetRoomActive(roomId, isActive) ==
  /\ rooms' = setRoomActive(rooms, roomId, isActive)
  /\ lastOp' = Op("setRoomActive", roomId, NoHost, isActive)
  /\ UNCHANGED <<participants, clients, conn, tasks, sent, nEvents, sequenceRef,
                 hasLeft, listenerVars, captureVars>>

RegistryNext ==
  \/ \E hostId \in Conns : CallCreateRoom(hostId)
  \/ \E roomId \in RoomIds, listenerId \in Conns : CallAddListener(roomId, listenerId)
  \/ \E roomId \in RoomIds, listenerId \in Conns : CallRemoveListener(roomId, listenerId)
  \/ \E roomId \in RoomIds : CallDeleteRoom(roomId)
  \/ \E roomId \in RoomIds, isActive \in BOOLEAN : CallSetRoomActive(roomId, isActive)

(***************************************************************************)
(* The listener page (JoinRoom): the jitter buffer and its scheduler.      *)
(* Times are counted in frames of 1/SAMPLE_RATE second, the resolution of  *)
(* the audio clock; a chunk is its Float32Array of interleaved stereo      *)
(* samples, kept as the array's length.  gainNodeRef is set and cleared    *)
(* together with audioContextRef.  Of the component's display state only   *)
(* isBuffering, isDelayed and bufferStatus are kept.                       *)
(***************************************************************************)
SAMPLE_RATE == 48000
BUFFER_SIZE == 2048
TARGET_DELAY_SECONDS == 6
\* Math.floor(CHUNKS_PER_SECOND * TARGET_DELAY_SECONDS)
TARGET_BUFFER_SIZE == (SAMPLE_RATE * TARGET_DELAY_SECONDS) \div BUFFER_SIZE
SCHEDULER_INTERVAL_MS == 10
\* SCHEDULE_AHEAD_TIME = 0.6 s, in frames
SCHEDULE_AHEAD_TIME == (SAMPLE_RATE * 6) \div 10
maxChunksPerCycle == 20
\* now + 0.2 (line 124) and now + 0.05 (lines 143, 232), in frames
StartLead == SAMPLE_RATE \div 5
CatchUpLead == SAMPLE_RATE \div 20
\* latestReceivedSeqRef.current > seq + 100 (line 246)
RestartGap == 100

\* audio_data messages the page receives in a run
MaxArrivals == 2
\* steps the audio clock makes in a run
MaxAdvances == 1

\* the clock moves by one scheduler interval, or by eleven seconds
ClockSteps == { (SAMPLE_RATE * SCHEDULER_INTERVAL_MS) \div 1000, 11 * SAMPLE_RATE }

\* sequence numbers of the chunks that arrive; NoSeq is a message without seq
SeqInputs == {0, 1, 150}
\* lengths of the decoded sample arrays: three seconds, ten seconds of stereo
SampleInputs == { 2 * 3 * SAMPLE_RATE, 2 * 10 * SAMPLE_RATE }

EmptyBuffer == [seq \in {} |-> 0]
BufferStatus(current, delay) ==
  [current |-> current, target |-> TARGET_BUFFER_SIZE, delay |-> delay]
TickResult(outcome, startedPlayback, chunks) ==
  [outcome |-> outcome, startedPlayback |-> startedPlayback, chunks |-> chunks]

\* the page as it is mounted
ListenerIdle ==
  /\ audioContext = FALSE
  /\ currentTime = 0
  /\ scheduler = FALSE
  /\ audioBuffer = EmptyBuffer
  /\ nextPlaySeq = NoSeq
  /\ nextPlayTime = 0
  /\ isBufferingRef = TRUE
  /\ isBuffering = TRUE
  /\ latestReceivedSeq = 0
  /\ hasStartedPlayback = FALSE
  /\ isDelayed = FALSE
  /\ bufferStatus = BufferStatus(0, 0)
  /\ started = <<>>
  /\ transitions = 0
  /\ lastTick = TickResult("none", FALSE, 0)
  /\ nArrivals = 0
  /\ nAdvances = 0
  /\ connectionState = "disconnected"

\* the source page as it is after its mount effects: sendRef.current is set
\* and connect() has created the socket
CaptureIdle ==
  /\ readyState = "CONNECTING"
  /\ picking = FALSE
  /\ processorRef = FALSE
  /\ accumulatedChunks = <<>>
  /\ accumulatedSamples = 0
  /\ captured = <<>>
  /\ handedOff = <<>>
  /\ wire = <<>>
  /\ nBlocks = 0
  /\ nCaptures = 0

RECURSIVE SumSamples(_)
\* lines 93-96: totalSamples
SumSamples(buffer) ==
  IF DOMAIN buffer = {} THEN 0
  ELSE LET seq == CHOOSE k \in DOMAIN buffer : TRUE
       IN buffer[seq] + SumSamples([k \in DOMAIN buffer \ {seq} |-> buffer[k]])

\* keys[0] and keys[keys.length - 1] of the sorted keys
MinKey(buffer) == CHOOSE k \in DOMAIN buffer : \A j \in DOMAIN buffer : k <= j
MaxKey(buffer) == CHOOSE k \in DOMAIN buffer : \A j \in DOMAIN buffer : j <= k

Max(a, b) == IF a >= b THEN a ELSE b

\* (a threshold of "anything buffered", to try C10 against)
bufferingCompleteWhenNotEmpty(totalSamples) == totalSamples > 0
\* line 108: delaySeconds >= TARGET_DELAY_SECONDS, for totalSamples
bufferingComplete(totalSamples) ==
  totalSamples >= 2 * SAMPLE_RATE * TARGET_DELAY_SECONDS

\* room_joined: initializeAudio (lines 50-71)
initializeAudio ==
  /\ connectionState = "connected"
  /\ IF ~audioContext
       THEN /\ audioContext' = TRUE
            /\ currentTime' = 0
            /\ audioBuffer' = EmptyBuffer
            /\ nextPlaySeq' = NoSeq
            /\ nextPlayTime' = 0
            /\ isBufferingRef' = TRUE
            /\ latestReceivedSeq' = 0
            /\ transitions' = 0
       ELSE UNCHANGED <<audioContext, currentTime, audioBuffer, nextPlaySeq,
                        nextPlayTime, isBufferingRef, latestReceivedSeq, transitions>>
  /\ UNCHANGED <<scheduler, isBuffering, hasStartedPlayback, isDelayed, bufferStatus,
                 started, lastTick, nArrivals, nAdvances>>
  /\ UNCHANGED connectionState
  /\ UNCHANGED <<relayVars, lastOp, captureVars>>

\* (a restart seen in any sequence number behind the latest one, to try C24
\* against)
restartDetectedOnAnyDrop(latest, seq) == latest > seq

\* lines 246-253: a sequence number far behind the latest one is a restart
restartDetected(latest, seq) == latest > seq + RestartGap

\* audio_data: playAudioData (lines 240-278).  decodes is FALSE for a payload
\* that atob or the Int16Array constructor rejects: the catch ends the call.
playAudioData(seq, samples, decodes) ==
  /\ connectionState = "connected"
  /\ nArrivals' = nArrivals + 1
  /\ IF ~audioContext \/ seq = NoSeq
       THEN UNCHANGED <<audioBuffer, nextPlaySeq, isBufferingRef, isBuffering,
                        latestReceivedSeq, scheduler, transitions>>
       ELSE LET restart == restartDetected(latestReceivedSeq, seq)
                cleared == IF restart THEN EmptyBuffer ELSE audioBuffer
                latest  == IF restart THEN 0 ELSE latestReceivedSeq
            IN /\ nextPlaySeq' = IF restart THEN NoSeq ELSE nextPlaySeq
               /\ isBufferingRef' = IF restart THEN TRUE ELSE isBufferingRef
               /\ isBuffering' = IF restart THEN TRUE ELSE isBuffering
               /\ transitions' = IF restart THEN 0 ELSE transitions
               /\ IF decodes
                    THEN /\ audioBuffer' =
                              [k \in DOMAIN cleared \cup {seq} |->
                                 IF k = seq THEN samples ELSE cleared[k]]
                         /\ latestReceivedSeq' = Max(latest, seq)
                         /\ scheduler' = TRUE
                    ELSE /\ audioBuffer' = cleared
                         /\ latestReceivedSeq' = latest
                         /\ UNCHANGED scheduler
  /\ UNCHANGED <<audioContext, currentTime, nextPlayTime, hasStartedPlayback,
                 isDelayed, bufferStatus, started, lastTick, nAdvances>>
  /\ UNCHANGED connectionState
  /\ UNCHANGED <<relayVars, lastOp, captureVars>>

RECURSIVE scheduleLoopBeyondLookahead(_, _, _, _, _, _)
\* (a loop that does not look at the lookahead window, to try C27 against)
scheduleLoopBeyondLookahead(buffer, seq, time, chunksScheduled, log, now) ==
  IF seq # NoSeq /\ seq \in DOMAIN buffer /\ chunksScheduled < maxChunksPerCycle
    THEN scheduleLoopBeyondLookahead(
           [k \in DOMAIN buffer \ {seq} |-> buffer[k]], seq + 1,
           time + (buffer[seq] \div 2), chunksScheduled + 1,
           Append(log, [seq |-> seq, when |-> time,
                        duration |-> buffer[seq] \div 2, at |-> now,
                        arrivals |-> nArrivals]),
           now)
    ELSE [buffer |-> buffer, seq |-> seq, time |-> time,
          chunksScheduled |-> chunksScheduled, log |-> log]

\* (a loop that hands one chunk to the output and empties the buffer, to try
\* C26 against)
scheduleLoopDiscardingRest(buffer, seq, time, chunksScheduled, log, now) ==
  IF seq # NoSeq /\ seq \in DOMAIN buffer /\ time < now + SCHEDULE_AHEAD_TIME
    THEN [buffer |-> EmptyBuffer, seq |-> seq + 1,
          time |-> time + (buffer[seq] \div 2), chunksScheduled |-> 1,
          log |-> Append(log, [seq |-> seq, when |-> time,
                               duration |-> buffer[seq] \div 2, at |-> now,
                               arrivals |-> nArrivals])]
    ELSE [buffer |-> buffer, seq |-> seq, time |-> time,
          chunksScheduled |-> chunksScheduled, log |-> log]

\* (a loop that hands one chunk to the output and leaves it in the buffer,
\* with the pointer and the play time as they were, to try C11 against)
scheduleLoopKeepingChunk(buffer, seq, time, chunksScheduled, log, now) ==
  IF seq # NoSeq /\ seq \in DOMAIN buffer /\ time < now + SCHEDULE_AHEAD_TIME
    THEN [buffer |-> buffer, seq |-> seq, time |-> time, chunksScheduled |-> 1,
          log |-> Append(log, [seq |-> seq, when |-> time,
                               duration |-> buffer[seq] \div 2, at |-> now,
                               arrivals |-> nArrivals])]
    ELSE [buffer |-> buffer, seq |-> seq, time |-> time,
          chunksScheduled |-> chunksScheduled, log |-> log]

RECURSIVE scheduleLoop(_, _, _, _, _, _)
\* lines 146-179: the chunks handed to the output in one call, and the buffer,
\* the pointer and the play time the loop ends with
scheduleLoop(buffer, seq, time, chunksScheduled, log, now) ==
  IF /\ seq # NoSeq
     /\ seq \in DOMAIN buffer
     /\ time < now + SCHEDULE_AHEAD_TIME
     /\ chunksScheduled < maxChunksPerCycle
    THEN LET frameCount == buffer[seq] \div 2
         IN scheduleLoop([k \in DOMAIN buffer \ {seq} |-> buffer[k]],
                         seq + 1,
                         time + frameCount,
                         chunksScheduled + 1,
                         Append(log, [seq |-> seq, when |-> time,
                                      duration |-> frameCount, at |-> now,
                                      arrivals |-> nArrivals]),
                         now)
    ELSE [buffer |-> buffer, seq |-> seq, time |-> time,
          chunksScheduled |-> chunksScheduled, log |-> log]

\* (no resynchronisation at all, to try C25 against)
resyncSeqNever(buffer, seq) == seq

\* (a resynchronisation of an unset pointer only, to try C14 against)
resyncSeqWhenUnset(buffer, seq) ==
  IF seq = NoSeq /\ DOMAIN buffer # {}
    THEN MinKey(buffer)
    ELSE seq

\* lines 114-120: the pointer the playback starts from
resyncSeq(buffer, seq) ==
  IF (seq = NoSeq \/ seq \notin DOMAIN buffer) /\ DOMAIN buffer # {}
    THEN MinKey(buffer)
    ELSE seq

\* (an underrun seen only once the buffer is empty, to try C13 against)
underrunWhenEmpty(buffer, seq, buffering, time, now) ==
  seq # NoSeq /\ DOMAIN buffer = {} /\ ~buffering /\ time < now

\* lines 130-131: the chunk to play is missing and its time has passed
underrun(buffer, seq, buffering, time, now) ==
  seq # NoSeq /\ seq \notin DOMAIN buffer /\ ~buffering /\ time < now

\* lines 184-185: nextPlaySeqRef.current || 0
delayed(latest, seq) ==
  latest - (IF seq = NoSeq THEN 0 ELSE seq) > TARGET_BUFFER_SIZE * 2

\* the interval timer fires: scheduleAudio (lines 83-188).  resumeAudioContext
\* changes nothing the model keeps.
scheduleAudio ==
  /\ scheduler
  /\ IF ~audioContext
       THEN /\ lastTick' = TickResult("noContext", FALSE, 0)
            /\ UNCHANGED <<audioBuffer, nextPlaySeq, nextPlayTime, isBufferingRef,
                           isBuffering, hasStartedPlayback, isDelayed, bufferStatus,
                           started, transitions>>
       ELSE LET now == currentTime
                totalSamples == SumSamples(audioBuffer)
                begins == isBufferingRef /\ bufferingComplete(totalSamples)
                seq0 == IF begins THEN resyncSeq(audioBuffer, nextPlaySeq)
                        ELSE nextPlaySeq
                time0 == IF begins THEN Max(now + StartLead, nextPlayTime)
                         ELSE nextPlayTime
                time1 == IF time0 - now < 0 THEN now + CatchUpLead ELSE time0
                loop == scheduleLoop(audioBuffer, seq0, time1, 0, started, now)
            IN /\ bufferStatus' = BufferStatus(Cardinality(DOMAIN audioBuffer),
                                               totalSamples \div 2)
               /\ IF isBufferingRef /\ ~begins
                    THEN /\ lastTick' = TickResult("waiting", FALSE, 0)
                         /\ UNCHANGED <<audioBuffer, nextPlaySeq, nextPlayTime,
                                        isBufferingRef, isBuffering,
                                        hasStartedPlayback, isDelayed, started,
                                        transitions>>
                    ELSE /\ hasStartedPlayback' = (begins \/ hasStartedPlayback)
                         /\ IF underrun(audioBuffer, seq0, FALSE, time0, now)
                              THEN /\ isBufferingRef' = TRUE
                                   /\ isBuffering' = TRUE
                                   /\ transitions' = 0
                                   /\ nextPlaySeq' = seq0
                                   /\ nextPlayTime' = time0
                                   /\ lastTick' = TickResult("underrun", begins, 0)
                                   /\ UNCHANGED <<audioBuffer, isDelayed, started>>
                              ELSE /\ isBufferingRef' = FALSE
                                   /\ isBuffering' = FALSE
                                   /\ transitions' = IF begins THEN transitions + 1
                                                     ELSE transitions
                                   /\ audioBuffer' = loop.buffer
                                   /\ nextPlaySeq' = loop.seq
                                   /\ nextPlayTime' = loop.time
                                   /\ started' = loop.log
                                   /\ isDelayed' = delayed(latestReceivedSeq, loop.seq)
                                   /\ lastTick' = TickResult("completed", begins,
                                                             loop.chunksScheduled)
  /\ UNCHANGED <<audioContext, currentTime, scheduler, latestReceivedSeq,
                 nArrivals, nAdvances>>
  /\ UNCHANGED connectionState
  /\ UNCHANGED <<relayVars, lastOp, captureVars>>

\* (a go-live that jumps to the newest chunk, to try C12 against)
targetStartNewest(buffer) == MaxKey(buffer)
\* lines 219-221: the sequence number go-live keeps the buffer from
targetStartOf(buffer) ==
  Max(MinKey(buffer), MaxKey(buffer) - TARGET_BUFFER_SIZE)

\* the "go live" button: goLive (lines 205-238)
\* lines 205-233: the delayed flag go-live leaves, pressed in the current state
isDelayedAfterGoLive ==
  IF ~audioContext \/ DOMAIN audioBuffer = {} THEN isDelayed ELSE FALSE

goLive ==
  /\ isDelayed' = isDelayedAfterGoLive
  /\ IF ~audioContext \/ DOMAIN audioBuffer = {}
       THEN UNCHANGED <<audioBuffer, nextPlaySeq, nextPlayTime, bufferStatus>>
       ELSE LET targetStart == targetStartOf(audioBuffer)
                kept == [k \in { j \in DOMAIN audioBuffer : ~(j < targetStart) } |->
                           audioBuffer[k]]
            IN /\ audioBuffer' = kept
               /\ nextPlaySeq' = targetStart
               /\ nextPlayTime' = currentTime + CatchUpLead
               /\ bufferStatus' = BufferStatus(Cardinality(DOMAIN kept),
                                               Cardinality(DOMAIN kept) * BUFFER_SIZE)
  /\ UNCHANGED <<audioContext, currentTime, scheduler, isBufferingRef, isBuffering,
                 latestReceivedSeq, hasStartedPlayback, started, transitions,
                 lastTick, nArrivals, nAdvances>>
  /\ UNCHANGED connectionState
  /\ UNCHANGED <<relayVars, lastOp, captureVars>>

\* host_disconnected (lines 389-400)
hostDisconnected ==
  /\ connectionState = "connected"
  /\ scheduler' = FALSE
  /\ audioBuffer' = EmptyBuffer
  /\ isBufferingRef' = TRUE
  /\ hasStartedPlayback' = FALSE
  /\ latestReceivedSeq' = 0
  /\ nextPlaySeq' = NoSeq
  /\ isDelayed' = FALSE
  /\ isBuffering' = TRUE
  /\ bufferStatus' = BufferStatus(0, 0)
  /\ transitions' = 0
  /\ UNCHANGED <<audioContext, currentTime, nextPlayTime, started, lastTick,
                 nArrivals, nAdvances>>
  /\ UNCHANGED connectionState
  /\ UNCHANGED <<relayVars, lastOp, captureVars>>

\* cleanupAudio (lines 280-299).  The calls of source.start were made on the
\* context that is closed here.
cleanupAudio ==
  /\ scheduler' = FALSE
  /\ audioBuffer' = EmptyBuffer
  /\ nextPlayTime' = 0
  /\ isBufferingRef' = TRUE
  /\ latestReceivedSeq' = 0
  /\ nextPlaySeq' = NoSeq
  /\ hasStartedPlayback' = FALSE
  /\ isDelayed' = FALSE
  /\ isBuffering' = TRUE
  /\ bufferStatus' = BufferStatus(0, 0)
  /\ audioContext' = FALSE
  /\ currentTime' = 0
  /\ started' = <<>>
  /\ transitions' = 0
  /\ UNCHANGED <<lastTick, nArrivals, nAdvances>>
  /\ UNCHANGED <<relayVars, lastOp, captureVars>>

\* disconnect (lines 327-333)
disconnect == connectionState' = "disconnected"

\* the "leave" button: handleLeave (lines 432-437); send changes nothing here
handleLeave == cleanupAudio /\ disconnect

\* the page is unmounted: the effect's cleanup (lines 414-419)
unmount == cleanupAudio /\ disconnect

\* handleJoin, connect and socket.onopen (lines 335-350, 421-430): the socket
\* is open and join_room is sent
socketOnOpen ==
  /\ connectionState = "disconnected"
  /\ connectionState' = "connected"
  /\ UNCHANGED <<audioContext, currentTime, scheduler, audioBuffer, nextPlaySeq,
                 nextPlayTime, isBufferingRef, isBuffering, latestReceivedSeq,
                 hasStartedPlayback, isDelayed, bufferStatus, started, transitions,
                 lastTick, nArrivals, nAdvances>>
  /\ UNCHANGED <<relayVars, lastOp, captureVars>>

\* the transport of an open socket closes: socket.onclose (lines 352-358)
socketOnClose ==
  /\ connectionState = "connected"
  /\ connectionState' = "disconnected"
  /\ UNCHANGED <<audioContext, currentTime, scheduler, audioBuffer, nextPlaySeq,
                 nextPlayTime, isBufferingRef, isBuffering, latestReceivedSeq,
                 hasStartedPlayback, isDelayed, bufferStatus, started, transitions,
                 lastTick, nArrivals, nAdvances>>
  /\ UNCHANGED <<relayVars, lastOp, captureVars>>

\* the audio clock of the open context moves on
AdvanceClock(d) ==
  /\ audioContext
  /\ nAdvances < MaxAdvances
  /\ nAdvances' = nAdvances + 1
  /\ currentTime' = currentTime + d
  /\ UNCHANGED <<audioContext, scheduler, audioBuffer, nextPlaySeq, nextPlayTime,
                 isBufferingRef, isBuffering, latestReceivedSeq, hasStartedPlayback,
                 isDelayed, bufferStatus, started, transitions, lastTick, nArrivals>>
  /\ UNCHANGED connectionState
  /\ UNCHANGED <<relayVars, lastOp, captureVars>>

ListenerNext ==
  \/ initializeAudio
  \/ \E seq \in SeqInputs, samples \in SampleInputs :
       nArrivals < MaxArrivals /\ playAudioData(seq, samples, TRUE)
  \* a payload that does not decode yields no samples; a message without seq
  \* is dropped before its payload is looked at
  \/ \E seq \in SeqInputs \cup {NoSeq} :
       nArrivals < MaxArrivals /\ playAudioData(seq, 0, FALSE)
  \/ scheduleAudio
  \/ goLive
  \/ hostDisconnected
  \/ handleLeave
  \/ unmount
  \/ socketOnOpen
  \/ socketOnClose
  \/ \E d \in ClockSteps : AdvanceClock(d)

(***************************************************************************)
(* A listener far behind the live edge: chunks of ten seconds numbered 0   *)
(* and 300, some of them with a payload that atob rejects.                 *)
(***************************************************************************)
\* audio_data messages the page receives in such a run
MaxLateArrivals == 3

LateSeqInputs == {0, 300}

LateNext ==
  \/ socketOnOpen
  \/ initializeAudio
  \/ \E seq \in LateSeqInputs, decodes \in BOOLEAN :
       /\ nArrivals < MaxLateArrivals
       /\ playAudioData(seq, 2 * 10 * SAMPLE_RATE, decodes)
  \/ scheduleAudio
  \/ goLive

(***************************************************************************)
(* A listener of a source that neither restarts nor leaves: chunks 0 and 1 *)
(* in any order and any number of times, on a page that stays open.        *)
(***************************************************************************)
SteadyNext ==
  \/ socketOnOpen
  \/ initializeAudio
  \/ \E seq \in {0, 1}, samples \in SampleInputs :
       nArrivals < MaxArrivals /\ playAudioData(seq, samples, TRUE)
  \/ scheduleAudio
  \/ goLive
  \/ \E d \in ClockSteps : AdvanceClock(d)

(***************************************************************************)
(* The relay.                                                              *)
(***************************************************************************)
EmptyMap == [x \in {} |-> 0]

RelayInit ==
  /\ rooms = EmptyMap
  /\ participants = EmptyMap
  /\ clients = {}
  /\ conn = [c \in Conns |-> Unconnected]
  /\ tasks = {}
  /\ sent = [c \in Conns |-> <<>>]
  /\ nEvents = 0
  /\ sequenceRef = [c \in Conns |-> 0]
  /\ hasLeft = [c \in Conns |-> FALSE]
  /\ lastOp = NoOp
  /\ ListenerIdle
  /\ CaptureIdle

RelayNext ==
  \/ \E c \in Conns : Connect(c)
  \/ \E c \in Conns : CreateRoomMsg(c)
  \/ \E c \in Conns, raw \in JoinInputs : JoinRoomMsg(c, raw)
  \/ \E c \in Conns, data \in AudioInputs : AudioDataMsg(c, data)
  \/ \E c \in Conns : LeaveRoomMsg(c)
  \/ \E c \in Conns : Close(c)
  \/ \E t \in tasks : CreateRoomResume(t)
  \/ \E t \in tasks : JoinAfterGetRoom(t)
  \/ \E t \in tasks : JoinAfterAddListener(t)
  \/ \E t \in tasks : ListenerCountAfterGetRoom(t)
  \/ \E t \in tasks : ListenerCountSend(t)
  \/ \E t \in tasks : AudioAfterSetRoomActive(t)
  \/ \E t \in tasks : AudioAfterHostStreaming(t)
  \/ \E t \in tasks : LeaveAfterBroadcast(t)
  \/ \E t \in tasks : LeaveAfterRemoveListener(t)
  \/ \E t \in tasks : LeaveFinish(t)
  \/ \E t \in tasks : CloseFinish(t)

(***************************************************************************)
(* A frame that carries none of the four messages, and one session: one    *)
(* source and one listener.                                                *)
(***************************************************************************)
\* the frames of that kind a client may send: a text that is not JSON, the
\* JSON text null, and a JSON value with no type the switch knows (a number,
\* {} or {"type": "ping"})
FrameInputs == {"text", "null", "untyped"}

\* lines 132-134: JSON.parse throws on a text that is not JSON, and reading
\* message.type throws on null
throws(frame) == frame \in {"text", "null"}

\* lines 130-134 and 234-240, for such a frame
FrameMsg(c, frame) ==
  /\ CanReceive(c)
  /\ nEvents' = nEvents + 1
  /\ sent' = IF throws(frame)
               THEN sendToClient(clients, conn, sent, c, ErrorMessage)
               ELSE sent
  /\ UNCHANGED <<rooms, participants, clients, conn, tasks, sequenceRef, hasLeft,
                 notRelayVars>>

\* the two clients of the session, and what each sends
SessionSource == "c1"
SessionListener == "c2"
SessionJoinInputs == JoinInputs \ RoomIds
SessionAudioInputs == {PcmData, EmptyData, HugeData}

\* the client of connection c has had the relay's answer to all it sent: no
\* handler of c is suspended
Answered(c) == \A t \in tasks : t.conn # c

\* each client sends a message when its last one has been handled
SessionNext ==
  \/ \E c \in {SessionSource, SessionListener} : Connect(c)
  \/ Answered(SessionSource) /\ CreateRoomMsg(SessionSource)
  \/ \E raw \in SessionJoinInputs :
       Answered(SessionListener) /\ JoinRoomMsg(SessionListener, raw)
  \/ \E c \in {SessionSource, SessionListener}, data \in SessionAudioInputs :
       Answered(c) /\ AudioDataMsg(c, data)
  \/ \E c \in {SessionSource, SessionListener} : Answered(c) /\ LeaveRoomMsg(c)
  \/ \E c \in {SessionSource, SessionListener} : Answered(c) /\ Close(c)
  \/ \E c \in {SessionSource, SessionListener}, frame \in FrameInputs :
       Answered(c) /\ FrameMsg(c, frame)
  \/ \E t \in tasks : CreateRoomResume(t)
  \/ \E t \in tasks : JoinAfterGetRoom(t)
  \/ \E t \in tasks : JoinAfterAddListener(t)
  \/ \E t \in tasks : ListenerCountAfterGetRoom(t)
  \/ \E t \in tasks : ListenerCountSend(t)
  \/ \E t \in tasks : AudioAfterSetRoomActive(t)
  \/ \E t \in tasks : AudioAfterHostStreaming(t)
  \/ \E t \in tasks : LeaveAfterBroadcast(t)
  \/ \E t \in tasks : LeaveAfterRemoveListener(t)
  \/ \E t \in tasks : LeaveFinish(t)
  \/ \E t \in tasks : CloseFinish(t)

(***************************************************************************)
(* The fan-out alone: broadcastToListeners applied once to a connection    *)
(* table.  It reads the table only, so the registry is left as it starts.  *)
(***************************************************************************)
\* the connection objects of the table: a socket of a connection in the
\* table is open, closing (the closing handshake has begun) or closed (its
\* close handler has not reached clients.delete); a source has a room
FanOutConnections ==
  { x \in [ws : {"OPEN", "CLOSING", "CLOSED"}, roomId : RoomIds \cup {NoRoom},
           isHost : BOOLEAN, isStreaming : {FALSE}] :
      x.isHost => x.roomId # NoRoom }

FanOutInit ==
  /\ rooms = EmptyMap
  /\ participants = EmptyMap
  /\ clients = Conns
  /\ conn \in [Conns -> FanOutConnections]
  /\ tasks = {}
  /\ sent = [c \in Conns |-> <<>>]
  /\ nEvents = 0
  /\ sequenceRef = [c \in Conns |-> 0]
  /\ hasLeft = [c \in Conns |-> FALSE]
  /\ lastOp = NoOp
  /\ ListenerIdle
  /\ CaptureIdle

\* the messages the relay broadcasts to a room without a payload
FanOutMessages(roomId) ==
  {HostStreamingMessage(roomId), HostDisconnectedMessage(roomId)}

\* lines 86-103, called once
FanOut(roomId, message) ==
  /\ nEvents = 0
  /\ nEvents' = 1
  /\ sent' = broadcastToListeners(clients, conn, sent, roomId, message)
  /\ UNCHANGED <<rooms, participants, clients, conn, tasks, sequenceRef, hasLeft,
                 notRelayVars>>

FanOutNext ==
  \E roomId \in RoomIds : \E message \in FanOutMessages(roomId) :
    FanOut(roomId, message)

(***************************************************************************)
(* The source page: HostRoom and its capture pipeline.  A block is named   *)
(* by its number in the order of delivery; a chunk's data is the sequence  *)
(* of its blocks.  The quantisation to Int16 and the base64 encoding       *)
(* (lines 156-174) work sample by sample on the merged array and keep its  *)
(* order; the timestamp is left out.                                       *)
(***************************************************************************)
\* BUFFER_SIZE of the source page (the listener page has its own)
HostBufferSize == 4096
CHUNK_DURATION_SECONDS == 10
SAMPLES_PER_CHUNK == SAMPLE_RATE * CHUNK_DURATION_SECONDS

\* blocks the audio subsystem delivers in a run, and captures started
MaxBlocks == 354
MaxCaptures == 2

\* the user stops the capture, or the socket closes under a running capture,
\* when the accumulator holds this many blocks
EventPoints == {0, 1, 117}

\* socket.onopen
hostSocketOpen ==
  /\ readyState = "CONNECTING"
  /\ readyState' = "OPEN"
  /\ UNCHANGED <<picking, processorRef, accumulatedChunks, accumulatedSamples,
                 captured, handedOff, wire, nBlocks, nCaptures>>
  /\ UNCHANGED <<relayVars, lastOp, listenerVars>>

\* the socket closes: the capture is not stopped
hostSocketClose ==
  /\ readyState \in {"CONNECTING", "OPEN"}
  /\ processorRef => Len(accumulatedChunks) \in EventPoints
  /\ readyState' = "CLOSED"
  /\ UNCHANGED <<picking, processorRef, accumulatedChunks, accumulatedSamples,
                 captured, handedOff, wire, nBlocks, nCaptures>>
  /\ UNCHANGED <<relayVars, lastOp, listenerVars>>

\* the button "Start Sharing Audio" (lines 298-310): shown while the page is
\* idle or selecting, enabled while connected; startTabCapture runs up to
\* its await (lines 75-88)
startTabCapture ==
  /\ readyState = "OPEN"
  /\ ~processorRef /\ ~picking
  /\ nCaptures < MaxCaptures
  /\ picking' = TRUE
  /\ UNCHANGED <<readyState, processorRef, accumulatedChunks, accumulatedSamples,
                 captured, handedOff, wire, nBlocks, nCaptures>>
  /\ UNCHANGED <<relayVars, lastOp, listenerVars>>

\* (a start that goes on counting, to try C29 against)
sequenceAtStartKept(seq) == seq

\* line 121: sequenceRef.current = 0
sequenceAtStart(seq) == 0

\* getDisplayMedia settles (lines 90-205).  granted is FALSE when the user
\* refuses or the stream has no audio track.
captureSettles(granted) ==
  /\ picking
  /\ picking' = FALSE
  /\ IF granted
       THEN /\ processorRef' = TRUE
            /\ sequenceRef' = [sequenceRef EXCEPT
                                 ![SessionSource] = sequenceAtStart(@)]
            /\ accumulatedChunks' = <<>>
            /\ accumulatedSamples' = 0
            /\ captured' = <<>>
            /\ nCaptures' = nCaptures + 1
       ELSE UNCHANGED <<processorRef, sequenceRef, accumulatedChunks,
                        accumulatedSamples, captured, nCaptures>>
  /\ UNCHANGED <<readyState, handedOff, wire, nBlocks>>
  /\ UNCHANGED <<rooms, participants, clients, conn, tasks, sent, nEvents, hasLeft>>
  /\ UNCHANGED <<lastOp, listenerVars>>

\* (a pipeline that keeps the accumulator after an emission, to try C30
\* against)
accumulatorAfterEmissionKept(chunks) == chunks

\* line 184: accumulatedChunks.length = 0
accumulatorAfterEmission(chunks) == <<>>

\* processor.onaudioprocess (lines 129-187) with a block of HostBufferSize
\* frames
onaudioprocess ==
  /\ processorRef
  /\ nBlocks < MaxBlocks
  /\ nBlocks' = nBlocks + 1
  /\ captured' = Append(captured, nBlocks + 1)
  /\ LET chunks == Append(accumulatedChunks, nBlocks + 1)
         samples == accumulatedSamples + HostBufferSize
         message == [capture |-> nCaptures,
                     seq |-> sequenceRef[SessionSource],
                     data |-> chunks]
     IN IF samples >= SAMPLES_PER_CHUNK
          THEN /\ sequenceRef' = [sequenceRef EXCEPT ![SessionSource] = @ + 1]
               /\ handedOff' = Append(handedOff, message)
               /\ wire' = IF readyState = "OPEN" THEN Append(wire, message)
                          ELSE wire
               /\ accumulatedChunks' = accumulatorAfterEmission(chunks)
               /\ accumulatedSamples' = 0
          ELSE /\ accumulatedChunks' = chunks
               /\ accumulatedSamples' = samples
               /\ UNCHANGED <<sequenceRef, handedOff, wire>>
  /\ UNCHANGED <<readyState, picking, processorRef, nCaptures>>
  /\ UNCHANGED <<rooms, participants, clients, conn, tasks, sent, nEvents, hasLeft>>
  /\ UNCHANGED <<lastOp, listenerVars>>

\* stopStreaming (lines 207-225): the button "Stop Sharing", the end of the
\* audio track, leaving the page
stopStreaming ==
  /\ processorRef
  /\ Len(accumulatedChunks) \in EventPoints
  /\ processorRef' = FALSE
  /\ UNCHANGED <<readyState, picking, accumulatedChunks, accumulatedSamples,
                 captured, handedOff, wire, nBlocks, nCaptures>>
  /\ UNCHANGED <<relayVars, lastOp, listenerVars>>

CaptureNext ==
  \/ hostSocketOpen
  \/ hostSocketClose
  \/ startTabCapture
  \/ \E granted \in BOOLEAN : captureSettles(granted)
  \/ onaudioprocess
  \/ stopStreaming

Init == RelayInit

Next == RelayNext

Spec == Init /\ [][Next]_vars

\* the registry alone, and the listener page alone
SpecRegistry == Init /\ [][RegistryNext]_vars

SpecListener == Init /\ [][ListenerNext]_vars

SpecLate == Init /\ [][LateNext]_vars

SpecSteady == Init /\ [][SteadyNext]_vars

\* the source page alone
SpecCapture == Init /\ [][CaptureNext]_vars

\* one session of the relay
SpecSession == Init /\ [][SessionNext]_vars

\* the fan-out alone
SpecFanOut == FanOutInit /\ [][FanOutNext]_vars

(***************************************************************************)
(* Notions the claims about the relay use.                                 *)
(***************************************************************************)
\* the listeners the Session Registry records for a room
RegistryListeners(ps, roomId) == { l \in DOMAIN ps : ps[l].roomId = roomId }

\* no handler of the connection is suspended
HandlersFinished(c) == \A t \in tasks : t.conn # c

\* the index of the last room_joined sent to c before index i, 0 when none
LastJoined(c, i) ==
  LET js == { j \in 1..(i - 1) : sent[c][j].type = "room_joined" }
  IN IF js = {} THEN 0 ELSE CHOOSE j \in js : \A k \in js : k <= j

\* C1. A connection is never sent an audio_data of another connection's room
\* before it has been sent room_joined for that room.
C1_AudioOnlyAfterRoomJoined ==
  \A c \in Conns : \A i \in 1..Len(sent[c]) :
    ( sent[c][i].type = "audio_data" /\ sent[c][i].source # c ) =>
      \E j \in 1..(i - 1) :
        /\ sent[c][j].type = "room_joined"
        /\ sent[c][j].roomId = sent[c][i].room

\* C2. A listener that joined before the source streamed (room_joined with
\* hostConnected = false) is sent host_streaming before any audio_data of the
\* room, and is sent host_streaming once only while the source stays.
C2_HostStreamingOnceBeforeAudio ==
  \A c \in Conns : \A i \in 1..Len(sent[c]) :
    LET m == sent[c][i]
        j == LastJoined(c, i)
    IN /\ ( /\ m.type = "audio_data"
            /\ j > 0
            /\ sent[c][j].roomId = m.room
            /\ ~sent[c][j].hostConnected )
          => \E k \in (j + 1)..(i - 1) :
               sent[c][k].type = "host_streaming" /\ sent[c][k].room = m.room
       /\ m.type = "host_streaming"
          => \A k \in (j + 1)..(i - 1) :
               ( sent[c][k].type = "host_streaming" /\ sent[c][k].room = m.room )
                 => \E h \in (k + 1)..(i - 1) : sent[c][h].type = "host_disconnected"

\* a source calls handleClientLeave, by leave_room or by transport close
SourceLeaves(c) ==
  /\ LeaveRoomMsg(c) \/ Close(c)
  /\ conn[c].isHost
  /\ conn[c].roomId # NoRoom

\* C3. When a source leaves, every other connection the registry records as a
\* listener of its room (with an open socket) is sent host_disconnected in that
\* step, and when the
\* handler has finished the room is absent from the registry.
C3_SourceLeaveNotifiesAndDeletes ==
  [][ /\ \A c \in Conns :
           SourceLeaves(c) =>
             \A l \in RegistryListeners(participants, conn[c].roomId) \ {c} :
               wsOpen(clients, conn, l) =>
                 /\ Len(sent'[l]) = Len(sent[l]) + 1
                 /\ sent'[l][Len(sent'[l])].type = "host_disconnected"
      /\ \A t \in tasks :
           ( LeaveFinish(t) /\ t.pc = "leave_deleteRoom" ) =>
             ~roomsHas(rooms', t.roomId)
    ]_vars

\* C4. After any sequence of registry calls every listener membership names a
\* room of the registry, and right after deleteRoom(r) the room r is gone, no
\* membership names r and getListenerCount(r) is 0.
C4_MembershipsNameExistingRooms ==
  /\ \A l \in DOMAIN participants : roomsHas(rooms, participants[l].roomId)
  /\ lastOp.op = "deleteRoom" =>
       /\ ~roomsHas(rooms, lastOp.roomId)
       /\ RegistryListeners(participants, lastOp.roomId) = {}
       /\ getListenerCount(participants, lastOp.roomId) = 0

\* deleteRoom has removed a room that had two listeners, and another room
\* keeps its listener
C4_DeletedRoomWithListeners ==
  /\ lastOp.op = "deleteRoom"
  /\ lastOp.result
  /\ lastOp.listeners = 2
  /\ DOMAIN participants # {}

\* C5. The chunks of one source reach a listener in the order the source sent
\* them: their sequence numbers never decrease (the source of the model never
\* restarts its capture).
C5_ChunksInOrder ==
  \A c \in Conns : \A i, j \in 1..Len(sent[c]) :
    ( /\ i < j
      /\ sent[c][i].type = "audio_data"
      /\ sent[c][j].type = "audio_data"
      /\ sent[c][i].source = sent[c][j].source
      /\ sent[c][i].room = sent[c][j].room )
      => sent[c][i].seq <= sent[c][j].seq

\* the indices of the listener_count messages of a room in the log of h,
\* counted from the last room_created that h was sent for the room
CountsSent(h, roomId) ==
  { i \in 1..Len(sent[h]) :
      /\ sent[h][i].type = "listener_count"
      /\ sent[h][i].room = roomId
      /\ \A k \in (i + 1)..Len(sent[h]) :
           ~( sent[h][k].type = "room_created" /\ sent[h][k].roomId = roomId ) }

\* C6. When no handler is in progress, the last listener_count sent to the
\* source of a room carries the number of listeners of the room (for a source
\* that is connected, is in the one room it created and was never a listener).
C6_NoLostCountUpdate ==
  tasks = {} =>
    \A r \in DOMAIN rooms :
      LET h == rooms[r].hostId
          idx == CountsSent(h, r)
      IN ( /\ wsOpen(clients, conn, h)
           /\ conn[h].isHost /\ conn[h].roomId = r
           /\ \A i \in 1..Len(sent[h]) : sent[h][i].type # "room_joined"
           /\ Cardinality({ i \in 1..Len(sent[h]) :
                             sent[h][i].type = "room_created" }) = 1
           /\ idx # {} ) =>
           sent[h][CHOOSE i \in idx : \A k \in idx : k <= i].count
             = getListenerCount(participants, r)

\* C7. Once a connection has left or closed and its handlers have finished,
\* the registry holds no room whose source is that connection.
C7_NoRoomOfDepartedSource ==
  \A c \in Conns :
    ( hasLeft[c] /\ HandlersFinished(c) ) =>
      \A r \in DOMAIN rooms : rooms[r].hostId # c

\* C8. Once a connection has left or closed and its handlers have finished,
\* the registry holds no listener membership for that connection.
C8_NoMembershipOfDepartedListener ==
  \A c \in Conns :
    ( hasLeft[c] /\ HandlersFinished(c) ) => c \notin DOMAIN participants

\* the buffered duration, in frames, has reached the target delay
TargetDelayBuffered ==
  SumSamples(audioBuffer) \div 2 >= TARGET_DELAY_SECONDS * SAMPLE_RATE

\* C10. The page leaves buffering only in a call of scheduleAudio that finds
\* at least the target delay buffered, and such a call does leave it; a call
\* in buffering state that finds less changes neither the state, the pointer,
\* the play time nor the buffer; an episode of buffering ends with one
\* transition to playing, counted from the moment buffering was entered.
C10_BufferingEndsOnceOnTarget ==
  [][ /\ ( isBufferingRef /\ ~isBufferingRef' ) =>
           ( scheduleAudio /\ audioContext /\ TargetDelayBuffered )
      /\ ( scheduleAudio /\ audioContext /\ isBufferingRef /\ TargetDelayBuffered ) =>
           ~isBufferingRef'
      /\ ( scheduleAudio /\ isBufferingRef /\ ~TargetDelayBuffered ) =>
           UNCHANGED <<isBufferingRef, isBuffering, nextPlaySeq, nextPlayTime,
                       audioBuffer>>
      /\ isBufferingRef' => transitions' = 0
      /\ ~isBufferingRef' => transitions' = 1
    ]_vars

\* a second episode of buffering (after an underrun, a restart or a
\* host_disconnected) has ended: this call of scheduleAudio started playback
\* and scheduled one chunk, and an earlier call had scheduled another
C10_SecondEpisodeEnded ==
  /\ lastTick.outcome = "completed"
  /\ lastTick.startedPlayback
  /\ lastTick.chunks = 1
  /\ ~isBufferingRef
  /\ transitions = 1
  /\ Len(started) = 2

\* the fan-out of a room reaches the connections (other than the source) that
\* the registry records as its listeners
FanOutMatchesRegistry(roomId, source) ==
  { c \in Recipients(clients, conn, roomId) : wsOpen(clients, conn, c) }
    = { l \in RegistryListeners(participants, roomId) \ {source} :
          wsOpen(clients, conn, l) }

\* C9. Whenever a valid audio_data is relayed, the recipients computed from the
\* connection table are the registry's listeners of the source's room.
C9_FanOutIsRegistryListeners ==
  [][ /\ \A c \in Conns, data \in AudioInputs :
           ( /\ AudioDataMsg(c, data)
             /\ conn[c].isHost /\ conn[c].roomId # NoRoom /\ conn[c].isStreaming
             /\ validAudio(data) )
             => FanOutMatchesRegistry(conn[c].roomId, c)
      /\ \A t \in tasks :
           ( AudioAfterHostStreaming(t) /\ validAudio(t.message.data) )
             => FanOutMatchesRegistry(conn[t.conn].roomId, t.conn)
    ]_vars

\* C11. A call of scheduleAudio never hands to the output a sequence number
\* that an earlier call handed over at the same clock instant with no chunk
\* arrival in between.
C11_TickSchedulesNoChunkAgain ==
  \A i, j \in 1..Len(started) :
    ( /\ i < j
      /\ started[i].at = started[j].at
      /\ started[i].arrivals = started[j].arrivals )
      => started[i].seq # started[j].seq

\* a call of scheduleAudio has run to its end and scheduled nothing, at the
\* instant and with the arrivals of an earlier call that scheduled a chunk,
\* while chunks are buffered
C11_SecondTickSameInstant ==
  /\ lastTick.outcome = "completed"
  /\ lastTick.chunks = 0
  /\ started # <<>>
  /\ started[Len(started)].at = currentTime
  /\ started[Len(started)].arrivals = nArrivals
  /\ DOMAIN audioBuffer # {}

\* goLive runs with an open context and a chunk in the buffer
GoLiveActs == goLive /\ audioContext /\ DOMAIN audioBuffer # {}

\* C12 as stated. When go-live moves a set pointer forward, the pointer does
\* not pass latest-received - target-buffer-size + 1, and go-live never puts
\* the pointer below the oldest buffered sequence number.
C12_GoLiveWithinStatedBound ==
  [][ GoLiveActs =>
        /\ ( nextPlaySeq # NoSeq /\ nextPlaySeq' > nextPlaySeq ) =>
              nextPlaySeq' <= latestReceivedSeq - TARGET_BUFFER_SIZE + 1
        /\ nextPlaySeq' >= MinKey(audioBuffer)
    ]_vars

\* C12, amended. Go-live never puts the pointer beyond the larger of the
\* oldest buffered sequence number and latest-received - target-buffer-size,
\* and never below the oldest buffered sequence number; when it discards a
\* chunk the pointer is at most latest-received - target-buffer-size.
C12_GoLiveWithinBufferBound ==
  [][ GoLiveActs =>
        /\ nextPlaySeq' <= Max(MinKey(audioBuffer),
                               latestReceivedSeq - TARGET_BUFFER_SIZE)
        /\ nextPlaySeq' >= MinKey(audioBuffer)
        /\ audioBuffer' # audioBuffer =>
              nextPlaySeq' <= latestReceivedSeq - TARGET_BUFFER_SIZE
    ]_vars

\* go-live has discarded chunk 0 and kept chunk 150: the pointer is 150 less
\* the target buffer size (the buffer status is the one goLive computes)
C12_GoLiveDiscarded ==
  /\ DOMAIN audioBuffer = {150}
  /\ nextPlaySeq = 150 - TARGET_BUFFER_SIZE
  /\ latestReceivedSeq = 150
  /\ bufferStatus = BufferStatus(1, BUFFER_SIZE)

\* the listener is playing, the chunk the pointer names is not buffered and
\* the time it was due at has passed
MissedChunk ==
  /\ audioContext /\ ~isBufferingRef
  /\ nextPlaySeq # NoSeq /\ nextPlaySeq \notin DOMAIN audioBuffer
  /\ nextPlayTime < currentTime

\* C13. A tick that finds the listener playing with the pointer's chunk
\* missing and its play time passed switches to buffering, hands nothing to
\* the output and leaves the buffer and the pointer as they were.
C13_UnderrunKeepsBuffer ==
  [][ (scheduleAudio /\ MissedChunk) =>
        /\ isBufferingRef' /\ isBuffering'
        /\ started' = started
        /\ audioBuffer' = audioBuffer
        /\ nextPlaySeq' = nextPlaySeq
    ]_vars

\* the last tick was an underrun with chunks beyond the pointer still buffered
C13_UnderrunWithLaterChunks ==
  /\ lastTick.outcome = "underrun" /\ isBufferingRef
  /\ nextPlaySeq # NoSeq /\ DOMAIN audioBuffer # {}
  /\ \A k \in DOMAIN audioBuffer : k > nextPlaySeq

\* the pointer is unset or names a chunk that is not buffered
PointerLost == nextPlaySeq = NoSeq \/ nextPlaySeq \notin DOMAIN audioBuffer

\* C14. A tick that finds the listener buffering with the target delay
\* buffered switches it to playing; when the pointer was unset or absent,
\* playback starts from the lowest buffered sequence number (the chunks handed
\* over in the tick are that one and its successors, and the pointer ends just
\* after them) at the time max(now + lead-in, previous play time).
C14_PlaybackStartsAtLowest ==
  [][ ( scheduleAudio /\ audioContext /\ isBufferingRef /\ TargetDelayBuffered ) =>
        LET first == Len(started) + 1
            count == Len(started') - Len(started)
            start == Max(currentTime + StartLead, nextPlayTime)
        IN /\ ~isBufferingRef' /\ ~isBuffering'
           /\ PointerLost =>
                 /\ nextPlaySeq' = MinKey(audioBuffer) + count
                 /\ \A i \in 1..count :
                       started'[first + i - 1].seq = MinKey(audioBuffer) + i - 1
           /\ IF count = 0 THEN nextPlayTime' = start
                           ELSE started'[first].when = start
    ]_vars

\* playback has started a second time, from chunk 150, after the pointer had
\* been left at 1 by the first start from chunk 0
C14_ResyncedToLowest ==
  /\ lastTick.outcome = "completed" /\ lastTick.startedPlayback
  /\ Len(started) = 2
  /\ started[1].seq = 0 /\ started[2].seq = 150
  /\ nextPlaySeq = 151

\* C16. Whenever the page's connection is gone (after a leave, an unmount or
\* a close of the transport) the scheduler timer is stopped, the buffer is
\* empty and the audio context is released.
C16_ExitReleasesEverything ==
  connectionState = "disconnected" =>
    ( ~scheduler /\ DOMAIN audioBuffer = {} /\ ~audioContext )

\* source s has been told the code r of the room it hosts, it is connected and
\* all it sent has been handled, and it has sent no audio since
RoomAnnounced(s, r) ==
  /\ wsOpen(clients, conn, s) /\ Answered(s)
  /\ conn[s].roomId = r /\ conn[s].isHost /\ ~conn[s].isStreaming
  /\ \E i \in 1..Len(sent[s]) : sent[s][i] = RoomCreatedMessage(r)

\* the code r as a listener may type it: in lower case, between blanks
Typed(r) == <<" ">> \o toLowerCase(r) \o <<" ">>

\* C15. Every room_created carries a code of six characters.  While a source
\* has been told its room's code and has sent no audio, a join_room with the
\* code in lower case between blanks finds the room under the canonical code,
\* is registered, and is answered with room_joined carrying the canonical
\* code and hostConnected = false.
C15_JoinByTypedCode ==
  [][ /\ \A c \in Conns : \A i \in 1..Len(sent'[c]) :
           sent'[c][i].type = "room_created" =>
             Len(sent'[c][i].roomId) = RoomCodeLength
      /\ \A s \in Conns, c \in Conns, r \in RoomIds :
           ( c # s /\ RoomAnnounced(s, r) /\ JoinRoomMsg(c, Typed(r)) ) =>
             \E t \in tasks' \ tasks :
               t.conn = c /\ t.roomId = r /\ t.hostId = s
      /\ \A s \in Conns, t \in tasks :
           ( /\ RoomAnnounced(s, t.roomId) /\ t.hostId = s /\ t.conn # s
             /\ JoinAfterGetRoom(t) ) =>
             /\ t.conn \in DOMAIN participants'
             /\ participants'[t.conn].roomId = t.roomId
             /\ \E u \in tasks' \ tasks : u.id = t.id /\ u.ok
      /\ \A s \in Conns, t \in tasks :
           ( /\ RoomAnnounced(s, t.roomId) /\ t.hostId = s /\ t.conn # s /\ t.ok
             /\ wsOpen(clients, conn, t.conn)
             /\ JoinAfterAddListener(t) ) =>
             /\ t.roomId \in RoomIds
             /\ sent'[t.conn] = Append(sent[t.conn], RoomJoinedMessage(t.roomId, FALSE))
    ]_vars

\* the listener's last message is room_joined with hostConnected = false for
\* the room whose source has sent no audio
C15_JoinedBeforeAudio ==
  \E r \in RoomIds :
    /\ RoomAnnounced(SessionSource, r)
    /\ sent[SessionListener] # <<>>
    /\ sent[SessionListener][Len(sent[SessionListener])] = RoomJoinedMessage(r, FALSE)
    /\ conn[SessionListener].roomId = r

\* the step sends an error message to c if its socket is open, and nothing
\* else to anyone
ErrorToOnly(c) ==
  /\ \A d \in Conns \ {c} : sent'[d] = sent[d]
  /\ sent'[c] = IF wsOpen(clients, conn, c) THEN Append(sent[c], ErrorMessage)
                ELSE sent[c]

\* C17. A join_room for a room that does not exist changes nothing and is
\* answered with one error to the requester: when the lookup found no room,
\* and when registration finds the room deleted since the lookup, no
\* membership is added, no connection object changes, the handler ends with
\* the error and sends neither room_joined nor listener_count.
C17_JoinOfMissingRoomChangesNothing ==
  [][ \A t \in tasks :
        /\ ( JoinAfterGetRoom(t) /\ t.hostId = NoHost ) =>
              /\ ErrorToOnly(t.conn) /\ t.id \notin { u.id : u \in tasks' }
              /\ UNCHANGED <<rooms, participants, conn, clients>>
        /\ ( JoinAfterGetRoom(t) /\ t.hostId # NoHost
                                 /\ ~roomsHas(rooms, t.roomId) ) =>
              /\ UNCHANGED <<rooms, participants, conn, clients, sent>>
              /\ \E u \in tasks' : u.id = t.id /\ ~u.ok
        /\ ( JoinAfterAddListener(t) /\ ~t.ok ) =>
              /\ ErrorToOnly(t.conn) /\ t.id \notin { u.id : u \in tasks' }
              /\ UNCHANGED <<rooms, participants, conn, clients>>
    ]_vars

\* a join_room found its room at the lookup and the registry refused the
\* registration: the room was deleted in between
C17_RoomDeletedBeforeRegistration ==
  \E t \in tasks :
    /\ t.pc = "join_addListener" /\ ~t.ok /\ t.hostId # NoHost
    /\ t.conn \notin DOMAIN participants
    /\ conn[t.conn].roomId = NoRoom

\* the messages the step sends to d
NewMessages(d) == SubSeq(sent'[d], Len(sent[d]) + 1, Len(sent'[d]))

\* C18. An audio_data with an empty or an oversized payload is forwarded to no
\* one and answered with no error, neither when it is received nor when its
\* handler resumes; the source's socket, role and room reference stay as they
\* were; and a valid audio_data of a streaming source is sent to every
\* listener connection of its room with an open socket.
C18_InvalidAudioDropped ==
  [][ /\ \A c \in Conns, data \in {EmptyData, HugeData} :
           AudioDataMsg(c, data) =>
             /\ \A d \in Conns : \A i \in 1..Len(NewMessages(d)) :
                   NewMessages(d)[i].type \notin {"audio_data", "error"}
             /\ c \in clients' /\ conn'[c].ws = conn[c].ws
             /\ conn'[c].roomId = conn[c].roomId /\ conn'[c].isHost = conn[c].isHost
      /\ \A t \in tasks :
           ( AudioAfterHostStreaming(t) /\ t.message.data \in {EmptyData, HugeData} ) =>
             UNCHANGED <<sent, conn, clients, rooms, participants>>
      /\ \A c \in Conns :
           ( /\ AudioDataMsg(c, PcmData)
             /\ conn[c].isHost /\ conn[c].roomId # NoRoom /\ conn[c].isStreaming ) =>
             \A d \in Conns \ {c} :
               ( /\ wsOpen(clients, conn, d)
                 /\ conn[d].roomId = conn[c].roomId /\ ~conn[d].isHost ) =>
                 /\ Len(NewMessages(d)) = 1
                 /\ NewMessages(d)[1].type = "audio_data"
                 /\ NewMessages(d)[1].data = PcmData
                 /\ NewMessages(d)[1].seq = sequenceRef[c]
    ]_vars

\* the source's first chunk (0) was invalid and its second (1) valid: the
\* listener, in the room all along, has host_streaming and then chunk 1
C18_ValidChunkAfterInvalid ==
  LET log == sent[SessionListener]
      n == Len(log)
  IN /\ tasks = {} /\ sequenceRef[SessionSource] = 2
     /\ n >= 3
     /\ log[n].type = "audio_data" /\ log[n].seq = 1
     /\ log[n - 1].type = "host_streaming"
     /\ log[n - 2].type = "room_joined"
     /\ conn[SessionSource].isHost /\ conn[SessionSource].isStreaming

\* C19. A frame that is not one of the four messages (a text that is not
\* JSON, null, or a JSON value of no known type) is answered with one error
\* message to its sender, and leaves the registry and every connection
\* object as they were.
C19_BadFrameAnsweredWithError ==
  [][ \A c \in Conns, frame \in FrameInputs :
        FrameMsg(c, frame) =>
          /\ sent'[c] = Append(sent[c], ErrorMessage)
          /\ \A d \in Conns \ {c} : sent'[d] = sent[d]
          /\ UNCHANGED <<rooms, participants, conn, clients>>
    ]_vars

\* C20. A broadcast to a room reaches exactly the listener connections of
\* the room whose own socket is open, once each: a listener with a closed or
\* closing socket is passed over with nothing sent to anyone on its account,
\* and whether a connection gets the message is decided by its own
\* connection object alone.
C20_FanOutPerRecipient ==
  [][ \A roomId \in RoomIds : \A message \in FanOutMessages(roomId) :
        FanOut(roomId, message) =>
          \A d \in Conns :
            sent'[d] = IF /\ conn[d].roomId = roomId /\ ~conn[d].isHost
                          /\ conn[d].ws = "OPEN"
                         THEN Append(sent[d], message)
                         ELSE sent[d]
    ]_vars

\* of two listeners of one room, the one with the closed socket has nothing
\* and the one with the open socket has the broadcast
C20_OpenListenerBesideClosed ==
  \E d1 \in Conns, d2 \in Conns :
    /\ conn[d1].roomId # NoRoom /\ conn[d2].roomId = conn[d1].roomId
    /\ ~conn[d1].isHost /\ ~conn[d2].isHost
    /\ conn[d1].ws = "CLOSED" /\ sent[d1] = <<>>
    /\ conn[d2].ws = "OPEN"
    /\ sent[d2] = <<HostStreamingMessage(conn[d1].roomId)>>

\* C21. A connection that has a room keeps its room and its role in every
\* step, or goes back to having no room: it never goes from one room to
\* another, nor from source to listener or from listener to source, in one
\* step.
C21_RoleAndRoomChangeOnlyFromUnjoined ==
  [][ \A c \in Conns :
        conn[c].roomId # NoRoom =>
          \/ conn'[c].roomId = NoRoom
          \/ /\ conn'[c].roomId = conn[c].roomId
             /\ conn'[c].isHost = conn[c].isHost
    ]_vars

\* connection c, which created one room and never joined one, has sent
\* leave_room and nothing after it: the handler of that leave_room is
\* suspended, and no other handler of c is
LeaveSent(c) ==
  /\ hasLeft[c]
  /\ \E t \in tasks : t.conn = c
  /\ \A t \in tasks : t.conn = c => t.kind = "leave_room"
  /\ \A i \in 1..Len(sent[c]) : sent[c][i].type # "room_joined"
  /\ Cardinality({ i \in 1..Len(sent[c]) : sent[c][i].type = "room_created" }) = 1

\* C22. A second leave_room from a source sends nothing and changes neither
\* the registry nor any connection object.
C22_SecondLeaveChangesNothing ==
  [][ \A c \in Conns :
        ( LeaveSent(c) /\ LeaveRoomMsg(c) ) =>
          UNCHANGED <<sent, rooms, participants, conn>>
    ]_vars

\* C23. createRoom returns a room whose code no room of the registry had, with
\* the given source and the active flag false; the registry has one room more
\* after it, and every room and every membership it had is unchanged.
C23_CreateRoomAddsFreshRoom ==
  [][ \A hostId \in Conns :
        CallCreateRoom(hostId) =>
          LET roomId == lastOp'.roomId
          IN /\ roomId \notin DOMAIN rooms
             /\ Len(roomId) = RoomCodeLength
             /\ DOMAIN rooms' = DOMAIN rooms \cup {roomId}
             /\ Cardinality(DOMAIN rooms') = Cardinality(DOMAIN rooms) + 1
             /\ rooms'[roomId] = [hostId |-> hostId, isActive |-> FALSE]
             /\ \A r \in DOMAIN rooms : rooms'[r] = rooms[r]
             /\ participants' = participants
    ]_vars

\* createRoom has just returned a second room beside an active one that has a
\* listener
C23_SecondRoomCreated ==
  /\ lastOp.op = "createRoom"
  /\ Cardinality(DOMAIN rooms) = 2
  /\ ~rooms[lastOp.roomId].isActive
  /\ \E r \in DOMAIN rooms \ {lastOp.roomId} :
       rooms[r].isActive /\ getListenerCount(participants, r) > 0

\* C24. A chunk with sequence number s that arrives at a page with an open
\* audio context, and decodes: when latest-received exceeds s + 100, the
\* buffer holds chunk s alone afterwards, the pointer is unset, the state is
\* buffering and latest-received is s; otherwise every buffered chunk is still
\* buffered (the chunk s itself is the one that arrived), the pointer and the
\* state are as they were and latest-received is max(latest-received, s).
C24_RestartDetectionOnArrival ==
  [][ \A s \in SeqInputs, samples \in SampleInputs :
        ( audioContext /\ playAudioData(s, samples, TRUE) ) =>
          IF latestReceivedSeq > s + 100
            THEN /\ DOMAIN audioBuffer' = {s}
                 /\ audioBuffer'[s] = samples
                 /\ nextPlaySeq' = NoSeq
                 /\ isBufferingRef' /\ isBuffering'
                 /\ latestReceivedSeq' = s
            ELSE /\ DOMAIN audioBuffer' = DOMAIN audioBuffer \cup {s}
                 /\ audioBuffer'[s] = samples
                 /\ \A k \in DOMAIN audioBuffer \ {s} :
                       audioBuffer'[k] = audioBuffer[k]
                 /\ nextPlaySeq' = nextPlaySeq
                 /\ isBufferingRef' = isBufferingRef
                 /\ isBuffering' = isBuffering
                 /\ latestReceivedSeq' = Max(latestReceivedSeq, s)
    ]_vars

\* chunk 150 has been played and chunk 0 has arrived after it: the restart
\* left chunk 0 alone in the buffer, the pointer unset and the page buffering
C24_RestartAfterPlayback ==
  /\ hasStartedPlayback /\ started # <<>>
  /\ started[Len(started)].seq = 150
  /\ DOMAIN audioBuffer = {0}
  /\ nextPlaySeq = NoSeq /\ isBufferingRef
  /\ latestReceivedSeq = 0

\* the page is buffering after an underrun: playback had started and the
\* pointer is set
BufferingAfterUnderrun ==
  audioContext /\ isBufferingRef /\ hasStartedPlayback /\ nextPlaySeq # NoSeq

\* C25 as stated. While the page is buffering after an underrun and the
\* pointer's chunk is not buffered, a tick leaves the pointer where it is.
C25_PointerKeptUntilChunkArrives ==
  [][ ( BufferingAfterUnderrun /\ nextPlaySeq \notin DOMAIN audioBuffer
                               /\ scheduleAudio ) =>
        nextPlaySeq' = nextPlaySeq
    ]_vars

\* C25, amended. While the page is buffering after an underrun, a tick that
\* finds less than the target delay buffered and an arrival that is no
\* restart leave the pointer where it is; the tick that finds the target
\* delay buffered starts playback from the pointer if its chunk is buffered
\* and from the lowest buffered sequence number otherwise.
C25_PointerKeptWhileBuffering ==
  [][ BufferingAfterUnderrun =>
        /\ ( scheduleAudio /\ ~TargetDelayBuffered ) =>
              ( nextPlaySeq' = nextPlaySeq /\ isBufferingRef' )
        /\ \A s \in SeqInputs, samples \in SampleInputs, decodes \in BOOLEAN :
              ( playAudioData(s, samples, decodes)
                /\ ~(latestReceivedSeq > s + 100) ) =>
                ( nextPlaySeq' = nextPlaySeq /\ isBufferingRef' )
        /\ ( scheduleAudio /\ TargetDelayBuffered ) =>
              /\ ~isBufferingRef'
              /\ nextPlaySeq' =
                   ( IF nextPlaySeq \in DOMAIN audioBuffer THEN nextPlaySeq
                     ELSE MinKey(audioBuffer) )
                   + ( Len(started') - Len(started) )
    ]_vars

\* after an underrun at pointer 1 a tick found chunk 150 buffered, short of the
\* target delay: the page is still buffering with the pointer at 1
C25_WaitingAtMissingChunk ==
  /\ BufferingAfterUnderrun
  /\ lastTick.outcome = "waiting"
  /\ nextPlaySeq = 1
  /\ DOMAIN audioBuffer = {150}

\* the step hands chunk k to the output
HandedOver(k) ==
  \E i \in (Len(started) + 1)..Len(started') : started'[i].seq = k

\* C26. When a chunk leaves the buffer, or the buffer holds another chunk
\* under its number, then the step is a tick that hands this chunk to the
\* output, an arrival that restart detection takes for a restart, go-live,
\* host_disconnected, leave or unmount, or the arrival of a chunk with the
\* same number, which takes its place.  No other arrival and no other tick
\* removes a chunk.
C26_OnlyGoLiveDiscards ==
  [][ \A k \in DOMAIN audioBuffer :
        ( k \notin DOMAIN audioBuffer' \/ audioBuffer'[k] # audioBuffer[k] ) =>
          \/ scheduleAudio /\ HandedOver(k)
          \/ \E s \in SeqInputs, samples \in SampleInputs, decodes \in BOOLEAN :
               /\ playAudioData(s, samples, decodes)
               /\ latestReceivedSeq > s + 100 \/ (s = k /\ decodes)
          \/ goLive
          \/ hostDisconnected \/ handleLeave \/ unmount
    ]_vars

\* a tick has handed chunk 0 to the output and left chunk 150, which is not
\* due yet, in the buffer
C26_LaterChunkKept ==
  /\ lastTick.outcome = "completed" /\ lastTick.chunks = 1
  /\ started # <<>> /\ started[Len(started)].seq = 0
  /\ DOMAIN audioBuffer = {150}
  /\ nextPlaySeq = 1

\* C27. Every chunk handed to the output in a tick at clock time now has a
\* start time t with now <= t < now + SCHEDULE_AHEAD_TIME.
C27_StartTimeWithinLookahead ==
  \A i \in 1..Len(started) :
    /\ started[i].at <= started[i].when
    /\ started[i].when < started[i].at + SCHEDULE_AHEAD_TIME

\* chunk 0 ended before the clock time of the tick that started chunk 1: the
\* play time had fallen behind the clock and chunk 1 starts CatchUpLead after it
C27_SnappedForward ==
  /\ Len(started) = 2
  /\ started[1].when + started[1].duration < started[2].at
  /\ started[2].when = started[2].at + CatchUpLead
  /\ lastTick.outcome = "completed"

C29_SequenceNumbersPerCapture ==
  \A k \in 1..nCaptures :
    LET emitted == SelectSeq(handedOff, LAMBDA m : m.capture = k)
        sentOut == SelectSeq(wire, LAMBDA m : m.capture = k)
    IN /\ \A i \in 1..Len(emitted) : emitted[i].seq = i - 1
       /\ \A i \in 1..Len(sentOut) : sentOut[i].seq = i - 1
       /\ (k = nCaptures /\ processorRef) =>
            sequenceRef[SessionSource] = Len(emitted)

\* the first capture has sent chunks 0 and 1, the second capture chunk 0
C29_RestartedAtZero ==
  /\ Len(wire) = 3
  /\ wire[1].capture = 1 /\ wire[1].seq = 0
  /\ wire[2].capture = 1 /\ wire[2].seq = 1
  /\ wire[3].capture = 2 /\ wire[3].seq = 0

\* C30. A chunk is handed over by the block callback that brings the
\* accumulated frames to SAMPLES_PER_CHUNK and by no other: every chunk holds
\* at least SAMPLES_PER_CHUNK frames and less without its last block, and the
\* accumulator always holds less.  The chunks of the running capture, one
\* after the other, followed by the accumulator are the blocks the capture
\* has delivered, in the order of delivery.  A step hands over one chunk at
\* most.
C30_ChunksAreTheBlocksInOrder ==
  [][ LET RECURSIVE Concatenation(_)
          Concatenation(log) ==
            IF log = <<>> THEN <<>>
            ELSE Head(log).data \o Concatenation(Tail(log))
          emitted == SelectSeq(handedOff', LAMBDA m : m.capture = nCaptures')
      IN /\ accumulatedSamples' = Len(accumulatedChunks') * HostBufferSize
         /\ accumulatedSamples' < SAMPLES_PER_CHUNK
         /\ \A i \in 1..Len(handedOff') :
              /\ Len(handedOff'[i].data) * HostBufferSize >= SAMPLES_PER_CHUNK
              /\ (Len(handedOff'[i].data) - 1) * HostBufferSize < SAMPLES_PER_CHUNK
         /\ Concatenation(emitted) \o accumulatedChunks' = captured'
         /\ Len(handedOff') <= Len(handedOff) + 1
    ]_vars

\* the capture has handed over its second chunk, of blocks 119 to 236, and
\* block 237 is in the accumulator
C30_SecondChunkAndOneBlock ==
  /\ nCaptures = 1
  /\ Len(handedOff) = 2
  /\ handedOff[2].data = [i \in 1..118 |-> 118 + i]
  /\ accumulatedChunks = <<237>>

\* C31. The hostConnected of every room_joined the relay sends equals the
\* active flag of the room joined, as the registry has it at the send.  A room
\* becomes active only in a step in which its source sends an audio chunk
\* (a payload the relay accepts), and it is active after every such step.
C31_HostConnectedIsActiveFlag ==
  [][ /\ \A c \in Conns :
           ( /\ Len(sent'[c]) = Len(sent[c]) + 1
             /\ sent'[c][Len(sent'[c])].type = "room_joined" ) =>
             LET m == sent'[c][Len(sent'[c])]
             IN /\ m.roomId \in DOMAIN rooms
                /\ m.hostConnected = rooms[m.roomId].isActive
      /\ \A r \in DOMAIN rooms' :
           ( rooms'[r].isActive /\ r \in DOMAIN rooms /\ ~rooms[r].isActive ) =>
             \E c \in Conns :
               /\ conn[c].isHost /\ conn[c].roomId = r
               /\ AudioDataMsg(c, PcmData)
      /\ \A c \in Conns :
           ( /\ AudioDataMsg(c, PcmData)
             /\ conn[c].isHost
             /\ conn[c].roomId \in DOMAIN rooms ) =>
             rooms'[conn[c].roomId].isActive
    ]_vars

\* C32. An audio_data with a payload the relay rejects changes no connection
\* object and no room, sends nothing and leaves no handler behind that could
\* send something.
C32_RejectedAudioHasNoEffect ==
  [][ \A c \in Conns, data \in SessionAudioInputs :
        ( AudioDataMsg(c, data) /\ ~validAudio(data) ) =>
          UNCHANGED <<conn, rooms, sent, tasks>>
    ]_vars

\* C33. In what the relay sends to a connection, no audio_data, host_streaming
\* or room_joined of a room comes after a host_disconnected of that room
\* (the room code given out once).
C33_HostDisconnectedIsLast ==
  \A c \in Conns :
    \A i \in 1..Len(sent[c]) :
      \A j \in (i + 1)..Len(sent[c]) :
        LET r == sent[c][i].room
            announced == { <<d, k>> \in Conns \X (1..MaxEvents) :
                             /\ k <= Len(sent[d])
                             /\ sent[d][k].type = "room_created"
                             /\ sent[d][k].roomId = r }
            pending == { t \in tasks : t.kind = "create_room" /\ t.roomId = r }
        IN ( /\ sent[c][i].type = "host_disconnected"
             /\ Cardinality(announced) + Cardinality(pending) <= 1 ) =>
             /\ ~( /\ sent[c][j].type \in {"audio_data", "host_streaming"}
                   /\ sent[c][j].room = r )
             /\ ~( /\ sent[c][j].type = "room_joined"
                   /\ sent[c][j].roomId = r )

\* C34. While no restart is detected (in the runs of SpecSteady none can be:
\* the sequence numbers are 0 and 1, and the page is neither told of a
\* disconnection nor cleaned up) the sequence numbers handed to the output
\* are strictly increasing: no chunk is played twice and none after a later
\* one.
C34_PlayedInOrder ==
  \A i, j \in 1..Len(started) :
    i < j => started[i].seq < started[j].seq

\* C35. While the audio context lives, each chunk handed to the output
\* starts no earlier than the end (start time plus duration) of the chunk
\* handed over before it.
C35_NoOverlap ==
  \A i \in 1..Len(started) :
    i < Len(started) =>
      started[i + 1].when >= started[i].when + started[i].duration

\* C36. Whenever the next-play pointer is set, every sequence number stored
\* in the buffer is greater than or equal to it.
C36_NothingBelowPointer ==
  nextPlaySeq # NoSeq => \A k \in DOMAIN audioBuffer : k >= nextPlaySeq

\* C37. Whenever the listener is in the playing state (the ref or the
\* displayed state says "not buffering") the next-play pointer is set; and a
\* step that unsets the pointer leaves the page buffering.
C37_PlayingHasPointer ==
  /\ ( ~isBufferingRef \/ ~isBuffering ) => nextPlaySeq # NoSeq
  /\ isBufferingRef = isBuffering

\* a chunk that drops by more than the restart gap has been taken as a
\* restart, and a later tick has started playback from it: the page is
\* playing, with the pointer just past the chunk
C37_PlayingAfterRestart ==
  /\ ~isBufferingRef /\ ~isBuffering
  /\ lastTick.outcome = "completed" /\ lastTick.startedPlayback
  /\ nArrivals = 2 /\ latestReceivedSeq = 1
  /\ Len(started) = 2
  /\ started[1].seq = 150 /\ started[2].seq = 1
  /\ nextPlaySeq = 2

\* C38. The handling of an audio_data message of a connection that is
\* unjoined or a listener sends nothing to any connection, starts no handler
\* and changes no connection record and no room record.
C38_OnlySourceInjectsAudio ==
  [][ \A c \in Conns, data \in SessionAudioInputs :
        ( AudioDataMsg(c, data) /\ ( conn[c].roomId = NoRoom \/ ~conn[c].isHost ) ) =>
          UNCHANGED <<sent, conn, rooms, tasks>>
    ]_vars

\* the listener of a room whose source has sent no audio has sent an
\* audio_data message, which has been handled: the room is not active, the
\* source is not streaming and no one has been sent audio
C38_ListenerAudioDropped ==
  /\ sequenceRef[SessionListener] = 1 /\ sequenceRef[SessionSource] = 0
  /\ tasks = {}
  /\ conn[SessionListener].roomId \in DOMAIN rooms
  /\ ~conn[SessionListener].isHost /\ ~conn[SessionListener].isStreaming
  /\ conn[SessionSource].roomId = conn[SessionListener].roomId
  /\ conn[SessionSource].isHost /\ ~conn[SessionSource].isStreaming
  /\ ~rooms[conn[SessionListener].roomId].isActive
  /\ \A c \in Conns : \A i \in 1..Len(sent[c]) :
       sent[c][i].type \notin {"audio_data", "host_streaming"}
  /\ \E i \in 1..Len(sent[SessionListener]) :
       sent[SessionListener][i].type = "room_joined"

\* C39. Whenever no handler is in progress, the room reference of every
\* connection in the relay's table is null or names a room of the registry
\* (looked at for the connections whose last message from the relay is
\* host_disconnected: the listeners of a room at the time its source left).
C39_RoomReferencesExist ==
  tasks = {} =>
    \A c \in clients :
      ( /\ conn[c].roomId # NoRoom
        /\ sent[c] # <<>>
        /\ sent[c][Len(sent[c])].type = "host_disconnected" ) =>
        conn[c].roomId \in DOMAIN rooms

====
